---- MODULE Spec2Model ----
(***************************************************************************)
(* Anime-Clipper-App: the job/render submission handlers of the HTTP tier  *)
(* (backend/app/api/jobs.py, backend/app/api/renderer.py) and the two      *)
(* Celery tasks (backend/app/workers/analyzer.py, workers/renderer.py)     *)
(* as a state machine over the database rows, the task queues, the shared  *)
(* scratch directory /tmp/videos and the object store.                     *)
(*                                                                         *)
(* Every HTTP handler is one action: the handlers are `async def` bodies   *)
(* without an await before their commit, so one event loop runs each to    *)
(* completion.  A Celery task is a sequence of actions, one per sub-step   *)
(* between two of its suspension points (subprocess, blob I/O, commit).    *)
(* Calls into the media toolchain, Whisper and the object store are        *)
(* external: each either returns or raises.                                *)
(***************************************************************************)
EXTENDS Integers, Sequences, FiniteSets, Bags, TLC

(* ------------------------------ bounds -------------------------------- *)
NumVideos == 2          \* Video rows 1..NumVideos, spread over the users
MaxJobs == 2            \* Job rows the handlers may create
NumWorkers == 2         \* worker processes of the analysis queue
MaxRedeliver == 1       \* redeliveries the at-least-once queue performs
MaxCands == 1           \* most candidates one video's scenes yield
VideoDuration == 30     \* the duration ffprobe reports for a source video
NumUsers == 2           \* owners of renders
MaxRenders == 4         \* Render rows the handlers may create
NumRenderWorkers == 1   \* worker processes of the rendering queue
MaxBatch == 6           \* longest list of requests given to batch_render
MaxExisting == 2        \* most intervals accepted before the one scored
MaxFrames == 7          \* most frames of a video given to detect_scenes

Videos == 1..NumVideos
Workers == 1..NumWorkers
Users == 1..NumUsers
RenderWorkers == 1..NumRenderWorkers

VARIABLES
    jobs,          \* jobs table: sequence of Job rows, the index is Job.id
    videos,        \* videos table: Video.id -> [duration]
    transcripts,   \* transcripts table: bag of rows [video, job]
    candidates,    \* candidates table: bag of rows [video, job, idx, thumb]
                   \* (job, idx: the execution and loop index that wrote the
                   \* row; they stand for the row's generated primary key)
    queue,         \* 'analysis' queue: sequence of messages [job, video, config]
    delivered,     \* messages the broker has handed to a worker at least once
    redelivered,   \* number of redeliveries so far
    wk,            \* per worker: the running execution of analyze_video_task
    files,         \* local scratch directory /tmp/videos: set of paths
    objects,       \* object store: set of keys written by upload_to_s3
    renders,       \* renders table: sequence of Render rows, index is Render.id
    rqueue,        \* 'rendering' queue: sequence of messages [render, params]
    rdelivered,    \* render messages handed to a worker at least once
    rwk,           \* per render worker: the running execution of render_clips_task
    call           \* a call of one of the pure functions: [fn, args, done, ret]

jobVars == <<jobs, videos, transcripts, candidates, queue, delivered,
             redelivered, wk, files, objects>>
renderVars == <<renders, rqueue, rdelivered, rwk>>
vars == <<jobs, videos, transcripts, candidates, queue, delivered,
          redelivered, wk, files, objects, renders, rqueue,
          rdelivered, rwk, call>>

(* ------------------------- configuration ------------------------------ *)
\* jobs.py load_config(): the defaults returned when config.yaml is absent.
LoadConfig ==
    [analysis |-> [clip_min_s |-> 7, clip_max_s |-> 15, target_s |-> 10,
                   candidates_per_minute |-> 4, max_candidates |-> 20],
     scoring  |-> [weights |-> [speech_hook |-> 30, motion |-> 25,
                                audio_peak |-> 20, keyword_match |-> 15,
                                scene_freshness |-> 10]],
     whisper  |-> [model |-> "base", language |-> "auto"]]

\* dict.update / {**a, **b}: b's keys override a's.
Merge(a, b) ==
    [k \in (DOMAIN a) \cup (DOMAIN b) |-> IF k \in DOMAIN b THEN b[k] ELSE a[k]]

\* dict.get(key, default)
Get(d, key, default) == IF key \in DOMAIN d THEN d[key] ELSE default

\* request.targets left empty ("{}"), and the value of an empty dict/logs
NoTargets == <<>>
NoKeywords == <<>>

\* start_analysis lines 117-129: the config handed to the task.
AnalysisConfig(keywords, targets) ==
    Merge(Merge(LoadConfig.analysis, targets),
          [keywords |-> keywords,
           weights |-> LoadConfig.scoring.weights,
           whisper_model |-> LoadConfig.whisper.model,
           language |-> Get(LoadConfig.whisper, "language", "auto")])

(* --------------------------- HTTP tier -------------------------------- *)
\* A handler's HTTP status is a function of the rows it reads; the handler
\* writes rows and enqueues only when it answers with its success status.
JobIds == 1..Len(jobs)

\* An admission query that looks for processing Jobs only.
ExistingJobProcessingOnly(v) ==
    \E j \in JobIds :
        /\ jobs[j].video = v
        /\ jobs[j].type = "analyze"
        /\ jobs[j].status = "processing"

\* start_analysis lines 104-109: the admission query.
ExistingJob(v) ==
    \E j \in JobIds :
        /\ jobs[j].video = v
        /\ jobs[j].type = "analyze"
        /\ jobs[j].status \in {"pending", "processing"}

NewJob(v, type, logs) ==
    [video |-> v, type |-> type, status |-> "pending", progress |-> 0,
     logs |-> logs]

Message(j, v, config) == [job |-> j, video |-> v, config |-> config]

\* Video.user_id: the videos are spread over the users.
VideoOwner(v) == ((v - 1) % NumUsers) + 1

\* start_analysis lines 92-115: 404 Video not found, 409 Conflict, else 201.
StartAnalysisStatus(u, v) ==
    IF v \notin Videos \/ VideoOwner(v) # u THEN 404
    ELSE IF ExistingJob(v) THEN 409
    ELSE 201

\* POST /jobs/analyze
StartAnalysis(u, v, keywords, targets) ==
    /\ StartAnalysisStatus(u, v) = 201 => Len(jobs) < MaxJobs
    /\ IF StartAnalysisStatus(u, v) = 201
       THEN /\ jobs' = Append(jobs, NewJob(v, "analyze", <<>>))
            /\ queue' = Append(queue,
                   Message(Len(jobs) + 1, v, AnalysisConfig(keywords, targets)))
       ELSE UNCHANGED <<jobs, queue>>
    /\ UNCHANGED <<videos, transcripts, candidates, delivered, redelivered,
                   wk, files, objects>>
    /\ UNCHANGED renderVars
    /\ UNCHANGED call

\* cancel_job lines 272-297: 404 Job not found, 403 not the owner, 400 not
\* cancellable, else 204.
CancelJobStatus(u, j) ==
    IF j \notin JobIds THEN 404
    ELSE IF VideoOwner(jobs[j].video) # u THEN 403
    ELSE IF jobs[j].status \notin {"pending", "processing"} THEN 400
    ELSE 204

\* DELETE /jobs/{job_id}
CancelJob(u, j) ==
    /\ IF CancelJobStatus(u, j) = 204
       THEN jobs' = [jobs EXCEPT
                ![j].status = "cancelled",
                ![j].logs = Merge(jobs[j].logs,
                                  [cancelled_by |-> "user",
                                   message |-> "Job cancelled by user"])]
       ELSE UNCHANGED jobs
    /\ UNCHANGED <<videos, transcripts, candidates, queue, delivered,
                   redelivered, wk, files, objects>>
    /\ UNCHANGED renderVars
    /\ UNCHANGED call

\* retry_job lines 322-347: 404 Job not found, 403 not the owner, 400 not
\* failed, else 200.
RetryJobStatus(u, j) ==
    IF j \notin JobIds THEN 404
    ELSE IF VideoOwner(jobs[j].video) # u THEN 403
    ELSE IF jobs[j].status # "failed" THEN 400
    ELSE 200

\* POST /jobs/{job_id}/retry
RetryJob(u, j) ==
    /\ RetryJobStatus(u, j) = 200 => Len(jobs) < MaxJobs
    /\ IF RetryJobStatus(u, j) = 200
       THEN /\ jobs' = Append(jobs, NewJob(jobs[j].video, jobs[j].type,
                                           [retried_from |-> j]))
            /\ queue' = IF jobs[j].type = "analyze"
                        THEN Append(queue,
                                 Message(Len(jobs) + 1, jobs[j].video,
                                         Get(jobs[j].logs, "config", LoadConfig)))
                        ELSE queue
       ELSE UNCHANGED <<jobs, queue>>
    /\ UNCHANGED <<videos, transcripts, candidates, delivered, redelivered,
                   wk, files, objects>>
    /\ UNCHANGED renderVars
    /\ UNCHANGED call

(* ---------------------- analysis queue (Celery) ----------------------- *)
NoMeta == [step |-> "", progress |-> 0]

Idle ==
    [pc |-> "idle", job |-> 0, video |-> 0, config |-> <<>>, meta |-> NoMeta,
     ncand |-> 0, idx |-> 0, pending |-> EmptyBag, created |-> {},
     result |-> "", error |-> ""]

Free(w) == wk[w].pc \in {"idle", "exited"}

\* A worker process takes the next message and calls analyze_video_task.
Deliver(w) ==
    /\ Free(w)
    /\ queue # <<>>
    /\ wk' = [wk EXCEPT ![w] = [Idle EXCEPT !.pc = "start",
                                            !.job = Head(queue).job,
                                            !.video = Head(queue).video,
                                            !.config = Head(queue).config]]
    /\ queue' = Tail(queue)
    /\ delivered' = delivered \cup {Head(queue)}
    /\ UNCHANGED <<jobs, videos, transcripts, candidates, redelivered, files,
                   objects>>
    /\ UNCHANGED renderVars
    /\ UNCHANGED call

\* At-least-once delivery: the broker hands out a message it already
\* handed out (a lost acknowledgement, an expired visibility timeout).
Redeliver(m) ==
    /\ m \in delivered
    /\ redelivered < MaxRedeliver
    /\ queue' = Append(queue, m)
    /\ redelivered' = redelivered + 1
    /\ UNCHANGED <<jobs, videos, transcripts, candidates, delivered, wk,
                   files, objects>>
    /\ UNCHANGED renderVars
    /\ UNCHANGED call

(* ------------------------ analyze_video_task -------------------------- *)
VideoPath(v) == [kind |-> "mp4", video |-> v, idx |-> 0]
AudioPath(v) == [kind |-> "wav", video |-> v, idx |-> 0]
ThumbPath(v, i) == [kind |-> "thumb", video |-> v, idx |-> i]
ThumbKey(v, i) == [kind |-> "thumbnails", video |-> v, idx |-> i]

\* str(e) of what the external collaborators raise: botocore's ClientError,
\* subprocess.CalledProcessError / cv2 / json errors, Whisper's errors.
StorageError == "ClientError"
ToolchainError == "CalledProcessError"
TranscriptionError == "RuntimeError"

\* self.update_state(state='PROGRESS', meta={'step': ..., 'progress': ...}):
\* a write to the Celery result backend of this task, not to the Job row.
UpdateState(w, step, progress) == [step |-> step, progress |-> progress]

\* db.commit() with `pending` the rows db.add() put in the session.
Flush(pending) == candidates (+) pending

\* The task has returned or raised: what Celery records of it (SUCCESS or
\* FAILURE with the exception) and the scratch files the run created.
Exited(w, result, msg, cr) ==
    [Idle EXCEPT !.pc = "exited", !.job = wk[w].job, !.video = wk[w].video,
                 !.result = result, !.error = msg, !.created = cr]

\* A handler that re-raises without recording the message on the Job.
ExceptHandlerNoLogs(w, msg, cr) ==
    /\ jobs' = [jobs EXCEPT ![wk[w].job].status = "failed"]
    /\ candidates' = Flush(wk[w].pending)
    /\ wk' = [wk EXCEPT ![w] = Exited(w, "raised", msg, cr)]

\* The except/finally block, lines 433-439: mark the Job failed, record the
\* message, commit (which also flushes the rows added to the session and
\* not yet committed) and re-raise.  `cr` are the scratch files the run
\* created up to the raise.
ExceptHandler(w, msg, cr) ==
    /\ jobs' = [jobs EXCEPT ![wk[w].job].status = "failed",
                            ![wk[w].job].logs = [error |-> msg]]
    /\ candidates' = Flush(wk[w].pending)
    /\ wk' = [wk EXCEPT ![w] = Exited(w, "raised", msg, cr)]

\* lines 295-304: load the rows, mark the Job processing.
Begin(w) ==
    /\ wk[w].pc = "start"
    /\ IF wk[w].job \notin JobIds \/ wk[w].video \notin Videos
       THEN ExceptHandler(w, "Job or Video not found", wk[w].created)
       ELSE /\ jobs' = [jobs EXCEPT ![wk[w].job].status = "processing",
                                    ![wk[w].job].progress = 0]
            /\ wk' = [wk EXCEPT ![w].pc = "downloading"]
            /\ UNCHANGED candidates
    /\ UNCHANGED <<videos, transcripts, queue, delivered, redelivered, files,
                   objects>>
    /\ UNCHANGED renderVars
    /\ UNCHANGED call

\* lines 306-309: download the source video to /tmp/videos/{video_id}.mp4.
Download(w) ==
    /\ wk[w].pc = "downloading"
    /\ LET m == UpdateState(w, "downloading", 5) IN
       \/ /\ files' = files \cup {VideoPath(wk[w].video)}
          /\ wk' = [wk EXCEPT ![w].pc = "analyzing_metadata", ![w].meta = m,
                       ![w].created = @ \cup {VideoPath(wk[w].video)}]
          /\ UNCHANGED <<jobs, candidates>>
       \/ /\ ExceptHandler(w, StorageError, wk[w].created)
          /\ UNCHANGED files
    /\ UNCHANGED <<videos, transcripts, queue, delivered, redelivered,
                   objects>>
    /\ UNCHANGED renderVars
    /\ UNCHANGED call

\* lines 311-319: ffprobe, then fill Video.duration / resolution.
Metadata(w, d) ==
    /\ wk[w].pc = "analyzing_metadata"
    /\ LET m == UpdateState(w, "analyzing_metadata", 10) IN
       \/ /\ videos' = [videos EXCEPT ![wk[w].video].duration = d]
          /\ wk' = [wk EXCEPT ![w].pc = "transcribing", ![w].meta = m]
          /\ UNCHANGED <<jobs, candidates>>
       \/ /\ ExceptHandler(w, ToolchainError, wk[w].created)
          /\ UNCHANGED videos
    /\ UNCHANGED <<transcripts, queue, delivered, redelivered, files,
                   objects>>
    /\ UNCHANGED renderVars
    /\ UNCHANGED call

\* lines 321-334: extract the audio track, transcribe it, store the Transcript.
Transcribe(w) ==
    /\ wk[w].pc = "transcribing"
    /\ LET m == UpdateState(w, "transcribing", 20)
           a == AudioPath(wk[w].video) IN
       \/ /\ files' = files \cup {a}
          /\ transcripts' = transcripts (+)
                 SetToBag({[video |-> wk[w].video, job |-> wk[w].job]})
          /\ wk' = [wk EXCEPT ![w].pc = "detecting_scenes", ![w].meta = m,
                              ![w].created = @ \cup {a}]
          /\ UNCHANGED <<jobs, candidates>>
       \/ /\ ExceptHandler(w, ToolchainError, wk[w].created)
          /\ UNCHANGED <<files, transcripts>>
       \/ /\ files' = files \cup {a}
          /\ ExceptHandler(w, TranscriptionError, wk[w].created \cup {a})
          /\ UNCHANGED transcripts
    /\ UNCHANGED <<videos, queue, delivered, redelivered, objects>>
    /\ UNCHANGED renderVars
    /\ UNCHANGED call

\* A signal extractor that touches no shared state: report the milestone,
\* run the sub-step, go on or raise.
Signal(w, step, progress, next) ==
    /\ wk[w].pc = step
    /\ LET m == UpdateState(w, step, progress) IN
       \/ /\ wk' = [wk EXCEPT ![w].pc = next, ![w].meta = m]
          /\ UNCHANGED <<jobs, candidates>>
       \/ ExceptHandler(w, ToolchainError, wk[w].created)
    /\ UNCHANGED <<videos, transcripts, queue, delivered, redelivered, files,
                   objects>>
    /\ UNCHANGED renderVars
    /\ UNCHANGED call

\* lines 336-338
DetectScenes(w) == Signal(w, "detecting_scenes", 40, "analyzing_motion")
\* lines 340-342
Motion(w) == Signal(w, "analyzing_motion", 55, "analyzing_audio")
\* lines 344-346
AudioPeaks(w) == Signal(w, "analyzing_audio", 70, "generating_candidates")

\* lines 348-390: enumerate, score, sort and cut to max_candidates.  The
\* enumeration is CPU-only and cannot raise; `n` is how many candidates the
\* video's scene boundaries yield.
Generate(w, n) ==
    /\ wk[w].pc = "generating_candidates"
    /\ LET top == IF n < Get(wk[w].config, "max_candidates", 20)
                  THEN n ELSE Get(wk[w].config, "max_candidates", 20) IN
       wk' = [wk EXCEPT ![w].pc = "creating_thumbnails",
                        ![w].meta = UpdateState(w, "generating_candidates", 80),
                        ![w].ncand = top, ![w].idx = 0]
    /\ UNCHANGED <<jobs, videos, transcripts, candidates, queue, delivered,
                   redelivered, files, objects>>
    /\ UNCHANGED renderVars
    /\ UNCHANGED call

\* line 393
ThumbnailsBegin(w) ==
    /\ wk[w].pc = "creating_thumbnails"
    /\ wk' = [wk EXCEPT ![w].pc = "thumbnail_loop",
                        ![w].meta = UpdateState(w, "creating_thumbnails", 90)]
    /\ UNCHANGED <<jobs, videos, transcripts, candidates, queue, delivered,
                   redelivered, files, objects>>
    /\ UNCHANGED renderVars
    /\ UNCHANGED call

\* lines 394-417, one iteration: extract the frame, upload it, add the
\* Candidate to the session (committed at line 419, or by the handler).
Thumbnail(w) ==
    /\ wk[w].pc = "thumbnail_loop"
    /\ wk[w].idx < wk[w].ncand
    /\ LET t == ThumbPath(wk[w].video, wk[w].idx)
           k == ThumbKey(wk[w].video, wk[w].idx)
           row == [video |-> wk[w].video, job |-> wk[w].job,
                   idx |-> wk[w].idx, thumb |-> k] IN
       \/ /\ files' = files \cup {t}
          /\ objects' = objects \cup {k}
          /\ wk' = [wk EXCEPT ![w].idx = @ + 1,
                              ![w].pending = @ (+) SetToBag({row}),
                              ![w].created = @ \cup {t}]
          /\ UNCHANGED <<jobs, candidates>>
       \/ /\ ExceptHandler(w, ToolchainError, wk[w].created)
          /\ UNCHANGED <<files, objects>>
       \/ /\ files' = files \cup {t}
          /\ ExceptHandler(w, StorageError, wk[w].created \cup {t})
          /\ UNCHANGED objects
    /\ UNCHANGED <<videos, transcripts, queue, delivered, redelivered>>
    /\ UNCHANGED renderVars
    /\ UNCHANGED call

\* lines 419-425: commit the Candidates, mark the Job completed.
Complete(w) ==
    /\ wk[w].pc = "thumbnail_loop"
    /\ wk[w].idx = wk[w].ncand
    /\ candidates' = Flush(wk[w].pending)
    /\ jobs' = [jobs EXCEPT ![wk[w].job].status = "completed",
                            ![wk[w].job].progress = 100,
                            ![wk[w].job].logs =
                                [candidates_generated |-> wk[w].ncand]]
    /\ wk' = [wk EXCEPT ![w].pc = "cleanup", ![w].pending = EmptyBag]
    /\ UNCHANGED <<videos, transcripts, queue, delivered, redelivered, files,
                   objects>>
    /\ UNCHANGED renderVars
    /\ UNCHANGED call

\* lines 427-431: os.remove of the video, then of the audio; os.remove of a
\* path that is gone raises FileNotFoundError, which the handler catches.
Cleanup(w) ==
    /\ wk[w].pc = "cleanup"
    /\ LET v == VideoPath(wk[w].video)
           a == AudioPath(wk[w].video) IN
       IF v \in files /\ a \in files
       THEN /\ files' = files \ {v, a}
            /\ wk' = [wk EXCEPT ![w] = Exited(w, "completed", "", wk[w].created)]
            /\ UNCHANGED <<jobs, candidates>>
       ELSE /\ files' = files \ {v}
            /\ ExceptHandler(w, "No such file or directory", wk[w].created)
    /\ UNCHANGED <<videos, transcripts, queue, delivered, redelivered,
                   objects>>
    /\ UNCHANGED renderVars
    /\ UNCHANGED call

(* ------------------------ renders: HTTP tier --------------------------- *)
\* create_render line 130 and batch_render line 294
MAX_CONCURRENT == 3
\* batch_render line 282
MaxBatchRequests == 5

Templates == {"clean", "manga", "impact", "karaoke"}
ValidOutputs == {"9:16", "1:1", "4:5"}

RenderIds == 1..Len(renders)

\* Candidate.id stands for the row it was generated for: <<job, idx>>.
CandidateId(row) == <<row.job, row.idx>>
CandidateRows(c) == {row \in BagToSet(candidates) : CandidateId(row) = c}

RenderRequest(cids, template, outputs) ==
    [candidate_ids |-> cids, template |-> template, outputs |-> outputs,
     watermark |-> "@myanime", loudness |-> "-14", captions |-> "on"]

\* create_render lines 124-128 / batch_render lines 289-292
ActiveRenders(rs, u) ==
    Cardinality({r \in 1..Len(rs) :
        rs[r].user = u /\ rs[r].status \in {"pending", "processing"}})

\* create_render lines 77-135, against the renders table `rs`.
CreateRenderStatusIn(rs, u, req) ==
    IF Len(req.candidate_ids) = 0 THEN 400
    ELSE IF req.template \notin Templates THEN 400
    ELSE IF \E i \in 1..Len(req.outputs) : req.outputs[i] \notin ValidOutputs
    THEN 400
    ELSE IF Cardinality({row \in BagToSet(candidates) :
                \E i \in 1..Len(req.candidate_ids) :
                    CandidateId(row) = req.candidate_ids[i]})
            # Len(req.candidate_ids)
    THEN 404
    ELSE IF \E i \in 1..Len(req.candidate_ids) :
                \E row \in CandidateRows(req.candidate_ids[i]) :
                    VideoOwner(row.video) # u
    THEN 403
    ELSE IF ActiveRenders(rs, u) >= MAX_CONCURRENT THEN 429
    ELSE 201

CreateRenderStatus(u, req) == CreateRenderStatusIn(renders, u, req)

NewRender(u, req) ==
    [user |-> u, params |-> req, status |-> "pending", files |-> <<>>]

RenderMessage(r, params) == [render |-> r, params |-> params]

\* POST /renders
CreateRender(u, req) ==
    /\ CreateRenderStatus(u, req) = 201 => Len(renders) < MaxRenders
    /\ IF CreateRenderStatus(u, req) = 201
       THEN /\ renders' = Append(renders, NewRender(u, req))
            /\ rqueue' = Append(rqueue, RenderMessage(Len(renders) + 1, req))
       ELSE UNCHANGED <<renders, rqueue>>
    /\ UNCHANGED <<rdelivered, rwk>>
    /\ UNCHANGED jobVars
    /\ UNCHANGED call

\* batch_render lines 282-299: 400 over five requests, 429 over the cap,
\* else 200 with one result per request.
BatchRenderStatus(u, reqs) ==
    IF Len(reqs) > MaxBatchRequests THEN 400
    ELSE IF ActiveRenders(renders, u) + Len(reqs) > MAX_CONCURRENT THEN 429
    ELSE 200

\* batch_render lines 301-316: create_render once per request, in order;
\* a request create_render refuses is reported in the results and skipped.
RECURSIVE BatchCreate(_, _, _, _)
BatchCreate(rs, q, u, reqs) ==
    IF reqs = <<>> THEN [renders |-> rs, rqueue |-> q]
    ELSE IF CreateRenderStatusIn(rs, u, Head(reqs)) = 201
    THEN BatchCreate(Append(rs, NewRender(u, Head(reqs))),
                     Append(q, RenderMessage(Len(rs) + 1, Head(reqs))),
                     u, Tail(reqs))
    ELSE BatchCreate(rs, q, u, Tail(reqs))

\* POST /renders/batch
BatchRender(u, reqs) ==
    /\ IF BatchRenderStatus(u, reqs) = 200
       THEN LET created == BatchCreate(renders, rqueue, u, reqs) IN
            /\ Len(created.renders) <= MaxRenders
            /\ renders' = created.renders
            /\ rqueue' = created.rqueue
       ELSE UNCHANGED <<renders, rqueue>>
    /\ UNCHANGED <<rdelivered, rwk>>
    /\ UNCHANGED jobVars
    /\ UNCHANGED call

(* ------------------------- render_clips_task -------------------------- *)
RIdle ==
    [pc |-> "idle", render |-> 0, params |-> <<>>, ci |-> 0, ai |-> 0,
     current |-> 0, progress |-> 0, files |-> <<>>, created |-> {},
     result |-> "", error |-> ""]

RFree(w) == rwk[w].pc \in {"idle", "exited"}

\* A render worker takes the next message and calls render_clips_task.
RDeliver(w) ==
    /\ RFree(w)
    /\ rqueue # <<>>
    /\ rwk' = [rwk EXCEPT ![w] = [RIdle EXCEPT !.pc = "start",
                                              !.render = Head(rqueue).render,
                                              !.params = Head(rqueue).params]]
    /\ rqueue' = Tail(rqueue)
    /\ rdelivered' = rdelivered \cup {Head(rqueue)}
    /\ UNCHANGED <<renders, redelivered>>
    /\ UNCHANGED <<jobs, videos, transcripts, candidates, queue, delivered,
                   wk, files, objects>>
    /\ UNCHANGED call

\* At-least-once delivery of the rendering queue.
RRedeliver(m) ==
    /\ m \in rdelivered
    /\ redelivered < MaxRedeliver
    /\ rqueue' = Append(rqueue, m)
    /\ redelivered' = redelivered + 1
    /\ UNCHANGED <<renders, rdelivered, rwk>>
    /\ UNCHANGED <<jobs, videos, transcripts, candidates, queue, delivered,
                   wk, files, objects>>
    /\ UNCHANGED call

\* output_filename, line 349: "{cand_id}_{aspect with : replaced by x}.mp4"
OutputPath(c, aspect) == [kind |-> "out", cand |-> c, aspect |-> aspect]
\* s3_key, line 363: "renders/{render_id}/{output_filename}"
RenderKey(r, c, aspect) ==
    [kind |-> "renders", render |-> r, cand |-> c, aspect |-> aspect]

RExited(w, result, msg, cr) ==
    [RIdle EXCEPT !.pc = "exited", !.render = rwk[w].render,
                  !.result = result, !.error = msg, !.created = cr]

\* The except/finally block, lines 381-387.
RExceptHandler(w, msg, cr) ==
    /\ renders' = [renders EXCEPT ![rwk[w].render].status = "failed",
                                  ![rwk[w].render].files = [error |-> msg]]
    /\ rwk' = [rwk EXCEPT ![w] = RExited(w, "raised", msg, cr)]

\* lines 296-316: load the Render, mark it processing, read the parameters.
RBegin(w) ==
    /\ rwk[w].pc = "start"
    /\ IF rwk[w].render \notin RenderIds
       THEN RExceptHandler(w, "Render not found", rwk[w].created)
       ELSE /\ renders' = [renders EXCEPT ![rwk[w].render].status = "processing"]
            /\ rwk' = [rwk EXCEPT ![w].pc = "candidate", ![w].ci = 1,
                                  ![w].current = 0, ![w].files = <<>>]
    /\ UNCHANGED <<rqueue, rdelivered, redelivered>>
    /\ UNCHANGED <<jobs, videos, transcripts, candidates, queue, delivered,
                   wk, files, objects>>
    /\ UNCHANGED call

\* lines 318-338: the next candidate of the list; a missing Candidate is
\* skipped; the source video is downloaded unless its file is there.
RCandidate(w) ==
    /\ rwk[w].pc = "candidate"
    /\ rwk[w].ci <= Len(rwk[w].params.candidate_ids)
    /\ LET c == rwk[w].params.candidate_ids[rwk[w].ci] IN
       IF CandidateRows(c) = {}
       THEN /\ rwk' = [rwk EXCEPT ![w].ci = @ + 1]
            /\ UNCHANGED <<renders, files>>
       ELSE LET row == CHOOSE x \in CandidateRows(c) : TRUE
                v == VideoPath(row.video) IN
            IF v \in files
            THEN /\ rwk' = [rwk EXCEPT ![w].pc = "transcode", ![w].ai = 1]
                 /\ UNCHANGED <<renders, files>>
            ELSE \/ /\ files' = files \cup {v}
                    /\ rwk' = [rwk EXCEPT ![w].pc = "transcode", ![w].ai = 1,
                                          ![w].created = @ \cup {v}]
                    /\ UNCHANGED renders
                 \/ /\ RExceptHandler(w, StorageError, rwk[w].created)
                    /\ UNCHANGED files
    /\ UNCHANGED <<rqueue, rdelivered, redelivered>>
    /\ UNCHANGED <<jobs, videos, transcripts, candidates, queue, delivered,
                   wk, objects>>
    /\ UNCHANGED call

\* line 343
Progress(current, total) == (current * 100) \div total

\* lines 341-360: report progress, transcode one (candidate, aspect) pair to
\* /tmp/videos/{cand_id}_{aspect}.mp4; ffmpeg reads the source video file.
RTranscode(w) ==
    /\ rwk[w].pc = "transcode"
    /\ rwk[w].ai <= Len(rwk[w].params.outputs)
    /\ LET c == rwk[w].params.candidate_ids[rwk[w].ci]
           row == CHOOSE x \in CandidateRows(c) : TRUE
           aspect == rwk[w].params.outputs[rwk[w].ai]
           total == Len(rwk[w].params.candidate_ids) * Len(rwk[w].params.outputs)
           o == OutputPath(c, aspect) IN
       \/ /\ VideoPath(row.video) \in files
          /\ files' = files \cup {o}
          /\ rwk' = [rwk EXCEPT ![w].pc = "upload", ![w].current = @ + 1,
                        ![w].progress = Progress(rwk[w].current + 1, total),
                        ![w].created = @ \cup {o}]
          /\ UNCHANGED renders
       \/ /\ RExceptHandler(w, "FFmpeg failed", rwk[w].created)
          /\ UNCHANGED files
    /\ UNCHANGED <<rqueue, rdelivered, redelivered>>
    /\ UNCHANGED <<jobs, videos, transcripts, candidates, queue, delivered,
                   wk, objects>>
    /\ UNCHANGED call

\* lines 362-372: upload the output, record it in rendered_files, remove
\* the local output; upload_file and os.remove raise on a missing file.
RUpload(w) ==
    /\ rwk[w].pc = "upload"
    /\ LET c == rwk[w].params.candidate_ids[rwk[w].ci]
           aspect == rwk[w].params.outputs[rwk[w].ai]
           o == OutputPath(c, aspect)
           url == RenderKey(rwk[w].render, c, aspect)
           cur == Get(rwk[w].files, c, <<>>) IN
       \/ /\ o \in files
          /\ objects' = objects \cup {url}
          /\ files' = files \ {o}
          /\ rwk' = [rwk EXCEPT
                 ![w].pc = "transcode", ![w].ai = @ + 1,
                 ![w].files = Merge(rwk[w].files,
                                    [x \in {c} |-> Merge(cur, [y \in {aspect} |-> url])])]
          /\ UNCHANGED renders
       \/ /\ RExceptHandler(w, IF o \in files THEN StorageError
                               ELSE "No such file or directory", rwk[w].created)
          /\ UNCHANGED <<files, objects>>
    /\ UNCHANGED <<rqueue, rdelivered, redelivered>>
    /\ UNCHANGED <<jobs, videos, transcripts, candidates, queue, delivered, wk>>
    /\ UNCHANGED call

\* line 341 exhausted: back to the candidate loop, line 318.
RNextCandidate(w) ==
    /\ rwk[w].pc = "transcode"
    /\ rwk[w].ai > Len(rwk[w].params.outputs)
    /\ rwk' = [rwk EXCEPT ![w].pc = "candidate", ![w].ci = @ + 1]
    /\ UNCHANGED <<renders, rqueue, rdelivered, redelivered>>
    /\ UNCHANGED <<jobs, videos, transcripts, candidates, queue, delivered,
                   wk, files, objects>>
    /\ UNCHANGED call

\* lines 374-379: mark the Render completed and store rendered_files.
RComplete(w) ==
    /\ rwk[w].pc = "candidate"
    /\ rwk[w].ci > Len(rwk[w].params.candidate_ids)
    /\ renders' = [renders EXCEPT ![rwk[w].render].status = "completed",
                                  ![rwk[w].render].files = rwk[w].files]
    /\ rwk' = [rwk EXCEPT ![w] = RExited(w, "completed", "", rwk[w].created)]
    /\ UNCHANGED <<rqueue, rdelivered, redelivered>>
    /\ UNCHANGED <<jobs, videos, transcripts, candidates, queue, delivered,
                   wk, files, objects>>
    /\ UNCHANGED call

(* ------------------------- the analysis system ------------------------ *)
\* No pure function is being evaluated.
NoCall == [fn |-> "", args |-> <<>>, done |-> FALSE, ret |-> <<>>]

\* The state after construction: empty tables and queues, idle workers.
EmptySystem ==
    /\ jobs = <<>>
    /\ videos = [v \in Videos |-> [duration |-> -1]]
    /\ transcripts = EmptyBag
    /\ candidates = EmptyBag
    /\ queue = <<>>
    /\ delivered = {}
    /\ redelivered = 0
    /\ wk = [w \in Workers |-> Idle]
    /\ files = {}
    /\ objects = {}
    /\ renders = <<>>
    /\ rqueue = <<>>
    /\ rdelivered = {}
    /\ rwk = [w \in RenderWorkers |-> RIdle]

Init ==
    /\ EmptySystem
    /\ call = NoCall

Next ==
    \/ \E u \in Users, v \in 0..NumVideos :
           StartAnalysis(u, v, NoKeywords, NoTargets)
    \/ \E u \in Users, j \in 1..MaxJobs : CancelJob(u, j)
    \/ \E u \in Users, j \in 1..MaxJobs : RetryJob(u, j)
    \/ \E m \in delivered : Redeliver(m)
    \/ \E w \in Workers :
        \/ Deliver(w)
        \/ Begin(w)
        \/ Download(w)
        \/ Metadata(w, VideoDuration)
        \/ Transcribe(w)
        \/ DetectScenes(w)
        \/ Motion(w)
        \/ AudioPeaks(w)
        \/ \E n \in 0..MaxCands : Generate(w, n)
        \/ ThumbnailsBegin(w)
        \/ Thumbnail(w)
        \/ Complete(w)
        \/ Cleanup(w)

Spec == Init /\ [][Next]_vars

(* -------------------------- the render system ------------------------- *)
\* The state the analysis system reaches when every video has been analysed
\* once and its run retained one candidate: jobs completed, thumbnails
\* uploaded (and still in the scratch directory), queue empty.
AnalysedJob(v) ==
    [video |-> v, type |-> "analyze", status |-> "completed", progress |-> 100,
     logs |-> [candidates_generated |-> 1]]

InitRender ==
    /\ jobs = [v \in Videos |-> AnalysedJob(v)]
    /\ videos = [v \in Videos |-> [duration |-> VideoDuration]]
    /\ transcripts = SetToBag({[video |-> v, job |-> v] : v \in Videos})
    /\ candidates = SetToBag({[video |-> v, job |-> v, idx |-> 0,
                               thumb |-> ThumbKey(v, 0)] : v \in Videos})
    /\ queue = <<>>
    /\ delivered = {Message(v, v, AnalysisConfig(NoKeywords, NoTargets)) :
                        v \in Videos}
    /\ redelivered = 0
    /\ wk = [w \in Workers |->
                IF w = 1
                THEN [Idle EXCEPT !.pc = "exited", !.job = NumVideos,
                                  !.video = NumVideos, !.result = "completed",
                                  !.created = {VideoPath(NumVideos),
                                               AudioPath(NumVideos),
                                               ThumbPath(NumVideos, 0)}]
                ELSE Idle]
    /\ files = {ThumbPath(v, 0) : v \in Videos}
    /\ objects = {ThumbKey(v, 0) : v \in Videos}
    /\ renders = <<>>
    /\ rqueue = <<>>
    /\ rdelivered = {}
    /\ rwk = [w \in RenderWorkers |-> RIdle]
    /\ call = NoCall

\* The requests a user sends: one candidate (their own or another user's),
\* a known or an unknown template, one output.
Requests ==
    {RenderRequest(<< <<v, 0>> >>, t, <<"9:16">>) :
        v \in Videos, t \in {"clean", "sepia"}}

OwnRequest(u) ==
    RenderRequest(<< <<CHOOSE v \in Videos : VideoOwner(v) = u, 0>> >>,
                  "clean", <<"9:16">>)

\* The batches a user sends: 0..MaxBatch copies of their own valid request, or
\* a refused request followed by a valid one.
Batches(u) ==
    {[i \in 1..n |-> OwnRequest(u)] : n \in 0..MaxBatch}
        \cup {<<RenderRequest(<< <<1, 0>> >>, "sepia", <<"9:16">>), OwnRequest(u)>>}

NextRender ==
    \/ \E u \in Users, req \in Requests : CreateRender(u, req)
    \/ \E u \in Users : \E reqs \in Batches(u) : BatchRender(u, reqs)
    \/ \E m \in rdelivered : RRedeliver(m)
    \/ \E w \in RenderWorkers :
        \/ RDeliver(w)
        \/ RBegin(w)
        \/ RCandidate(w)
        \/ RTranscode(w)
        \/ RUpload(w)
        \/ RNextCandidate(w)
        \/ RComplete(w)

SpecRender == InitRender /\ [][NextRender]_vars

(* ------------------- the render task on its own ----------------------- *)
\* The requests a user sends here: their own candidate, rendered in two
\* aspects or in one.
TaskRequests(u) ==
    {RenderRequest(OwnRequest(u).candidate_ids, "clean", o) :
        o \in {<<"9:16", "1:1">>, <<"4:5">>}}

NextRenderTask ==
    \/ \E u \in Users : \E req \in TaskRequests(u) : CreateRender(u, req)
    \/ \E w \in RenderWorkers :
        \/ RDeliver(w)
        \/ RBegin(w)
        \/ RCandidate(w)
        \/ RTranscode(w)
        \/ RUpload(w)
        \/ RNextCandidate(w)
        \/ RComplete(w)

SpecRenderTask == InitRender /\ [][NextRenderTask]_vars

(* ------------------------- text and numbers --------------------------- *)
\* A str is a sequence of characters; a time is a number of tenths of a
\* second; a score is an exact fraction [n, d] with d > 0, and [0, 0] is
\* the nan that numpy's mean of an empty slice returns.
UpperCase == <<"A", "B", "C", "D", "E", "F", "G", "H", "I", "J", "K", "L", "M",
               "N", "O", "P", "Q", "R", "S", "T", "U", "V", "W", "X", "Y", "Z">>
LowerCase == <<"a", "b", "c", "d", "e", "f", "g", "h", "i", "j", "k", "l", "m",
               "n", "o", "p", "q", "r", "s", "t", "u", "v", "w", "x", "y", "z">>

\* str.lower()
Lower(s) ==
    [i \in 1..Len(s) |->
        IF \E k \in 1..Len(UpperCase) : UpperCase[k] = s[i]
        THEN LowerCase[CHOOSE k \in 1..Len(UpperCase) : UpperCase[k] = s[i]]
        ELSE s[i]]

\* str.strip(chars)
RECURSIVE Strip(_, _)
Strip(s, chars) ==
    IF s = <<>> THEN s
    ELSE IF Head(s) \in chars THEN Strip(Tail(s), chars)
    ELSE IF s[Len(s)] \in chars THEN Strip(SubSeq(s, 1, Len(s) - 1), chars)
    ELSE s

\* str.endswith(c)
EndsWith(s, c) == s # <<>> /\ s[Len(s)] = c

\* needle in hay
Contains(hay, needle) ==
    \E i \in 0..(Len(hay) - Len(needle)) :
        SubSeq(hay, i + 1, i + Len(needle)) = needle

\* sep.join(parts)
RECURSIVE Join(_, _)
Join(parts, sep) ==
    IF parts = <<>> THEN <<>>
    ELSE IF Len(parts) = 1 THEN parts[1]
    ELSE parts[1] \o sep \o Join(Tail(parts), sep)

\* str.replace(old, new) for a one-character old
RECURSIVE Replace(_, _, _)
Replace(s, old, new) ==
    IF s = <<>> THEN <<>>
    ELSE (IF Head(s) = old THEN new ELSE <<Head(s)>>)
             \o Replace(Tail(s), old, new)

\* seconds, as written in the configuration, to tenths of a second
Seconds(x) == x * 10

\* int(t) of a time: whole seconds, truncated towards zero
IntOf(t) == IF t >= 0 THEN t \div 10 ELSE -((-t) \div 10)

RECURSIVE GCD(_, _)
GCD(a, b) == IF b = 0 THEN a ELSE GCD(b, a % b)

Abs(x) == IF x < 0 THEN -x ELSE x

Frac(n, d) ==
    IF d = 0 THEN [n |-> 0, d |-> 0]
    ELSE LET g == GCD(Abs(n), Abs(d))
             sgn == IF d < 0 THEN -1 ELSE 1 IN
         [n |-> sgn * (n \div g), d |-> sgn * (d \div g)]

NaN == Frac(0, 0)
Zero == Frac(0, 1)
One == Frac(1, 1)
IsNaN(x) == x.d = 0

FAdd(x, y) == IF IsNaN(x) \/ IsNaN(y) THEN NaN
              ELSE Frac(x.n * y.d + y.n * x.d, x.d * y.d)
FSub(x, y) == IF IsNaN(x) \/ IsNaN(y) THEN NaN
              ELSE Frac(x.n * y.d - y.n * x.d, x.d * y.d)
FMul(x, y) == IF IsNaN(x) \/ IsNaN(y) THEN NaN
              ELSE Frac(x.n * y.n, x.d * y.d)
\* x < y; every comparison with nan is false
FLess(x, y) == ~IsNaN(x) /\ ~IsNaN(y) /\ x.n * y.d < y.n * x.d

\* Python's min(a, b) is "b if b < a else a"; max(a, b) is "b if b > a else a"
FMin(a, b) == IF FLess(b, a) THEN b ELSE a
FMax(a, b) == IF FLess(a, b) THEN b ELSE a

\* float(np.mean(xs[lo:hi])) of a sequence of fractions, 0-based slice
Slice(xs, lo, hi) ==
    LET h == IF hi < Len(xs) THEN hi ELSE Len(xs) IN
    IF lo >= h THEN <<>> ELSE SubSeq(xs, lo + 1, h)

RECURSIVE FSum(_)
FSum(xs) == IF xs = <<>> THEN Zero ELSE FAdd(Head(xs), FSum(Tail(xs)))

Mean(xs) ==
    IF xs = <<>> \/ IsNaN(FSum(xs)) THEN NaN
    ELSE Frac(FSum(xs).n, FSum(xs).d * Len(xs))

(* ----------------------------- scoring -------------------------------- *)
\* A transcript word is [word, start, end]; an interval is <<start, end>>.
Str_wait == <<"w", "a", "i", "t">>
Str_what == <<"w", "h", "a", "t">>
hook_words ==
    {Str_wait, <<"h", "e", "y">>, <<"n", "o">>, <<"s", "t", "o", "p">>,
     Str_what, <<"n", "o", "w">>, <<"l", "o", "o", "k">>,
     <<"w", "a", "t", "c", "h">>}
question_words ==
    {<<"w", "h", "o">>, Str_what, <<"w", "h", "e", "r", "e">>,
     <<"w", "h", "e", "n">>, <<"w", "h", "y">>, <<"h", "o", "w">>}

\* line 205: early_window = start_s + 2.5
EarlyWindow == 25

\* detect_hook_phrases lines 207-220: the sum, in tenths, over the words.
RECURSIVE HookSum(_, _, _)
HookSum(words, start_s, end_s) ==
    IF words = <<>> THEN 0
    ELSE LET word == Head(words)
             word_lower == Strip(Lower(word.word), {".", ",", "!", "?"})
             here ==
                 IF word.start < start_s \/ word.start > end_s THEN 0
                 ELSE IF word.start <= start_s + EarlyWindow
                 THEN (IF word_lower \in hook_words THEN 5 ELSE 0)
                      + (IF word_lower \in question_words THEN 3 ELSE 0)
                      + (IF EndsWith(word.word, "!") THEN 2 ELSE 0)
                 ELSE 0 IN
         here + HookSum(Tail(words), start_s, end_s)

\* detect_hook_phrases: min(score, 1.0)
DetectHookPhrases(words, start_s, end_s) ==
    FMin(Frac(HookSum(words, start_s, end_s), 10), One)

\* score_candidate lines 248-251
KeywordScore(start_s, end_s, transcript_words, keywords) ==
    LET inside == SelectSeq(transcript_words,
                      LAMBDA w : start_s <= w.start /\ w.start <= end_s)
        segment_words == [i \in 1..Len(inside) |-> Lower(inside[i].word)]
        text == Join(segment_words, <<" ">>)
        hits == Cardinality({i \in 1..Len(keywords) :
                                Contains(text, Lower(keywords[i]))})
        n == IF Len(keywords) > 1 THEN Len(keywords) ELSE 1 IN
    FMin(Frac(hits, n), One)

\* score_candidate lines 254-258
RECURSIVE OverlapPenalty(_, _, _)
OverlapPenalty(start_s, end_s, existing) ==
    IF existing = <<>> THEN Zero
    ELSE LET ex == existing[Len(existing)]
             lo == IF start_s > ex[1] THEN start_s ELSE ex[1]
             hi == IF end_s < ex[2] THEN end_s ELSE ex[2]
             overlap == hi - lo
             before == OverlapPenalty(start_s, end_s,
                           SubSeq(existing, 1, Len(existing) - 1)) IN
         IF overlap > 0 THEN FAdd(before, Frac(overlap, end_s - start_s))
         ELSE before

\* A freshness without the floor at 0.
FreshnessUnclamped(start_s, end_s, existing) ==
    FSub(One, OverlapPenalty(start_s, end_s, existing))

\* score_candidate line 259
Freshness(start_s, end_s, existing) ==
    FMax(Zero, FSub(One, OverlapPenalty(start_s, end_s, existing)))

\* score_candidate lines 241-246: the mean of the per-second scores
WindowScore(scores, start_s, end_s) ==
    IF IntOf(start_s) < Len(scores)
    THEN Mean(Slice(scores, IntOf(start_s), IntOf(end_s)))
    ELSE Zero

\* weights.get(key, default), the weights held as percentages
Weight(weights, key, default) == Frac(Get(weights, key, default), 100)

ScoreCandidate(start_s, end_s, transcript_words, motion_scores, audio_scores, keywords, existing_candidates, weights) ==
    LET features ==
            [speech_hook |-> DetectHookPhrases(transcript_words, start_s, end_s),
             motion |-> WindowScore(motion_scores, start_s, end_s),
             audio_peak |-> WindowScore(audio_scores, start_s, end_s),
             keyword_match |-> KeywordScore(start_s, end_s, transcript_words,
                                            keywords),
             scene_freshness |-> Freshness(start_s, end_s, existing_candidates)]
        total ==
            FAdd(FAdd(FAdd(FAdd(
                FMul(Weight(weights, "speech_hook", 30), features.speech_hook),
                FMul(Weight(weights, "motion", 25), features.motion)),
                FMul(Weight(weights, "audio_peak", 20), features.audio_peak)),
                FMul(Weight(weights, "keyword_match", 15), features.keyword_match)),
                FMul(Weight(weights, "scene_freshness", 10),
                     features.scene_freshness)) IN
    [score |-> total, features |-> features]

\* min(a, b, c) of three times
Min3(a, b, c) ==
    LET m == IF b < a THEN b ELSE a IN IF c < m THEN c ELSE m

\* analyze_video_task lines 350-386: the candidates, in the order the loops
\* append them.  Step s of the loops is scene s \div 3 and the duration
\* number s % 3 of [target_duration, min_duration, max_duration].
RECURSIVE EnumerateFrom(_, _, _, _, _, _, _, _)
EnumerateFrom(s, acc, scene_boundaries, duration, words, motion_scores, audio_scores, config) ==
    LET min_duration == Seconds(Get(config, "clip_min_s", 7))
        max_duration == Seconds(Get(config, "clip_max_s", 15))
        target_duration == Seconds(Get(config, "target_s", 10))
        keywords == Get(config, "keywords", <<>>)
        weights == Get(config, "weights", <<>>)
        durations == <<target_duration, min_duration, max_duration>> IN
    IF s >= 3 * (Len(scene_boundaries) - 1) THEN acc
    ELSE LET scene_start == scene_boundaries[(s \div 3) + 1]
             scene_end == scene_boundaries[(s \div 3) + 2]
             d == durations[(s % 3) + 1]
             start_s == scene_start
             end_s == Min3(start_s + d, scene_end, duration)
             existing_segments ==
                 [i \in 1..Len(acc) |-> <<acc[i].start_s, acc[i].end_s>>]
             scored == ScoreCandidate(start_s, end_s, words, motion_scores,
                           audio_scores, keywords, existing_segments, weights)
             next ==
                 IF scene_end - scene_start < d THEN acc
                 ELSE IF end_s - start_s >= min_duration
                 THEN Append(acc, [start_s |-> start_s, end_s |-> end_s,
                                   score |-> scored.score,
                                   features |-> scored.features])
                 ELSE acc IN
         EnumerateFrom(s + 1, next, scene_boundaries, duration, words,
                       motion_scores, audio_scores, config)

Enumerate(scene_boundaries, duration, words, motion_scores, audio_scores, config) ==
    EnumerateFrom(0, <<>>, scene_boundaries, duration, words, motion_scores,
                  audio_scores, config)

\* line 389: candidates.sort(key=score, reverse=True), a stable sort: x goes
\* behind every element whose score is not below its own.
\* A sort that puts x in front of the elements of equal score.
RECURSIVE InsertBeforeEqual(_, _)
InsertBeforeEqual(x, sorted) ==
    IF sorted = <<>> THEN <<x>>
    ELSE IF ~FLess(x.score, Head(sorted).score) THEN <<x>> \o sorted
    ELSE <<Head(sorted)>> \o InsertBeforeEqual(x, Tail(sorted))

RECURSIVE InsertByScore(_, _)
InsertByScore(x, sorted) ==
    IF sorted = <<>> THEN <<x>>
    ELSE IF FLess(Head(sorted).score, x.score) THEN <<x>> \o sorted
    ELSE <<Head(sorted)>> \o InsertByScore(x, Tail(sorted))

RECURSIVE SortByScore(_)
SortByScore(cands) ==
    IF cands = <<>> THEN <<>>
    ELSE InsertByScore(cands[Len(cands)],
                       SortByScore(SubSeq(cands, 1, Len(cands) - 1)))

\* xs[:k]
Prefix(xs, k) ==
    IF k >= 0 THEN SubSeq(xs, 1, IF k < Len(xs) THEN k ELSE Len(xs))
    ELSE SubSeq(xs, 1, Len(xs) + k)

\* lines 388-390: top_candidates, the candidates the task persists
TopCandidates(scene_boundaries, duration, words, motion_scores, audio_scores, config) ==
    Prefix(SortByScore(Enumerate(scene_boundaries, duration, words,
                                 motion_scores, audio_scores, config)),
           Get(config, "max_candidates", 20))

\* VideoAnalyzer.detect_scenes of a video of `frames` frames at `fps` whose
\* probed duration is `duration`; `cuts` are the sampled frames whose
\* histogram differs from the previous sample's by more than the threshold.
RECURSIVE ScanFrames(_, _, _, _, _)
ScanFrames(frame_count, frames, fps, cuts, scene_boundaries) ==
    IF frame_count >= frames THEN scene_boundaries
    ELSE ScanFrames(frame_count + 1, frames, fps, cuts,
             IF frame_count % 3 = 0 /\ frame_count > 0 /\ frame_count \in cuts
             THEN Append(scene_boundaries, Seconds(frame_count) \div fps)
             ELSE scene_boundaries)

SceneBoundaries(frames, fps, duration, cuts) ==
    Append(ScanFrames(0, frames, fps, cuts, <<0>>), duration)

\* x / y
FDiv(x, y) == IF IsNaN(x) \/ IsNaN(y) THEN NaN
              ELSE Frac(x.n * y.d, x.d * y.n)

\* ndarray.max(); of an array without elements it raises ValueError
RECURSIVE ArrayMax(_)
ArrayMax(xs) ==
    IF Len(xs) = 1 THEN xs[1] ELSE FMax(xs[1], ArrayMax(Tail(xs)))

\* VideoAnalyzer.compute_motion_scores lines 124-147: the loop over the
\* frames.  diffs[f] is np.mean(cv2.absdiff(...)) of sampled frame f and the
\* sample before it.
RECURSIVE MotionScan(_, _, _, _, _, _)
MotionScan(frame_count, frames, fps, sample_rate, diffs, st) ==
    IF frame_count >= frames THEN st
    ELSE IF frame_count % sample_rate # 0
    THEN MotionScan(frame_count + 1, frames, fps, sample_rate, diffs, st)
    ELSE IF ~st.has_prev
    THEN MotionScan(frame_count + 1, frames, fps, sample_rate, diffs,
                    [st EXCEPT !.has_prev = TRUE])
    ELSE LET second == frame_count \div fps
             stored ==
                 IF second > st.current_second
                 THEN [st EXCEPT
                         !.motion_scores =
                             Append(@, IF st.second_diffs # <<>>
                                       THEN Mean(st.second_diffs) ELSE Zero),
                         !.second_diffs = <<>>,
                         !.current_second = second]
                 ELSE st IN
         MotionScan(frame_count + 1, frames, fps, sample_rate, diffs,
                    [stored EXCEPT
                        !.second_diffs = Append(@, diffs[frame_count])])

\* VideoAnalyzer.compute_motion_scores: the scores, or the exception
ComputeMotionScores(frames, fps, sample_rate, diffs) ==
    LET st == MotionScan(0, frames, fps, sample_rate, diffs,
                         [motion_scores |-> <<>>, has_prev |-> FALSE,
                          current_second |-> 0, second_diffs |-> <<>>])
        motion_scores ==
            IF st.second_diffs # <<>>
            THEN Append(st.motion_scores, Mean(st.second_diffs))
            ELSE st.motion_scores IN
    IF motion_scores = <<>>
    THEN [raises |-> "ValueError", value |-> <<>>]
    ELSE [raises |-> "",
          value |-> IF FLess(Zero, ArrayMax(motion_scores))
                    THEN [i \in 1..Len(motion_scores) |->
                             FDiv(motion_scores[i], ArrayMax(motion_scores))]
                    ELSE motion_scores]

(* ---------------------- the scoring functions ------------------------- *)
\* The transcript "wait what is" at 0.2 s, 0.6 s, 1.1 s; one that shouts.
Hooked ==
    <<[word |-> Str_wait, start |-> 2, end |-> 5],
      [word |-> Str_what, start |-> 6, end |-> 10],
      [word |-> <<"i", "s">>, start |-> 11, end |-> 13]>>
Shouted ==
    <<[word |-> <<"L", "o", "o", "k", "!">>, start |-> 52, end |-> 58],
      [word |-> <<"W", "h", "y", "?">>, start |-> 140, end |-> 144]>>
Transcripts == {<<>>, Hooked, Shouted}

\* AnalyzeRequest.keywords: any list of strings
KeywordLists ==
    {<<>>, << <<>> >>, <<Str_wait>>, <<<<"W", "h", "y">>, <<"f", "i", "g", "h", "t">>>>}

\* AnalyzeRequest.targets: any dict
Targets ==
    {NoTargets, [target_s |-> 20], [clip_max_s |-> 5], [max_candidates |-> 1],
     [max_candidates |-> 2]}

Points == {0, 50, 100, 150}
Intervals == {<<a, b>> : a \in Points, b \in Points} \ {<<a, b>> \in Points \X Points : a >= b}
ExistingLists == UNION {[1..n -> Intervals] : n \in 0..MaxExisting}

\* per-second motion and audio scores of a 12 s video, normalised to 0..1
MotionScores ==
    [i \in 1..12 |-> IF i % 3 = 0 THEN One ELSE Frac(i % 3, 4)]
AudioScores ==
    [i \in 1..12 |-> IF i = 7 THEN One ELSE Frac(1, 2)]

\* the scores of a video without motion or sound: max() is 0, so the
\* arrays are returned as they are
StillScores == [i \in 1..12 |-> Zero]

\* scene-boundary lists of a video of the probed duration
BoundaryLists ==
    LET d == Seconds(VideoDuration) IN
    {<<0, d>>, <<0, 100, d>>, <<0, 200, d>>, <<0, 100, 200, d>>}

HookCalls ==
    {[fn |-> "detect_hook_phrases",
      args |-> [words |-> w, start_s |-> i[1], end_s |-> i[2]],
      done |-> FALSE, ret |-> <<>>] :
        w \in Transcripts, i \in {<<0, 100>>, <<50, 150>>}}

ScoreCalls ==
    {[fn |-> "score_candidate",
      args |-> [start_s |-> i[1], end_s |-> i[2], words |-> <<>>,
                keywords |-> <<>>, existing |-> l],
      done |-> FALSE, ret |-> <<>>] : i \in Intervals, l \in ExistingLists}
    \cup
    {[fn |-> "score_candidate",
      args |-> [start_s |-> 0, end_s |-> 100, words |-> w,
                keywords |-> k, existing |-> <<>>],
      done |-> FALSE, ret |-> <<>>] : w \in Transcripts, k \in KeywordLists}

SceneCalls ==
    {[fn |-> "detect_scenes",
      args |-> [frames |-> n, fps |-> f, duration |-> d, cuts |-> c],
      done |-> FALSE, ret |-> <<>>] :
        n \in 0..MaxFrames, f \in {1, 2, 5}, d \in {0, 10, 30},
        c \in SUBSET {x \in 1..MaxFrames : x % 3 = 0}}

CandidateCalls ==
    {[fn |-> "top_candidates",
      args |-> [scene_boundaries |-> b, duration |-> Seconds(VideoDuration),
                words |-> w, motion_scores |-> m[1], audio_scores |-> m[2],
                config |-> AnalysisConfig(<<>>, t)],
      done |-> FALSE, ret |-> <<>>] :
        b \in BoundaryLists, w \in {<<>>, Hooked}, t \in Targets,
        m \in {<<MotionScores, AudioScores>>, <<StillScores, StillScores>>}}

\* the candidate loops of analyze_video_task on their own
EnumerateCalls ==
    {[fn |-> "enumerate",
      args |-> [scene_boundaries |-> b, duration |-> Seconds(VideoDuration),
                words |-> w, config |-> AnalysisConfig(<<>>, t)],
      done |-> FALSE, ret |-> <<>>] :
        b \in BoundaryLists, w \in {<<>>, Hooked}, t \in Targets}

\* frame differences of a video: none, or some that vary with the frame
FrameDiffs ==
    {[f \in 0..(MaxFrames + 1) |-> Zero],
     [f \in 0..(MaxFrames + 1) |-> Frac(((f * 7) % 5) + 1, 1)]}

MotionCalls ==
    {[fn |-> "compute_motion_scores",
      args |-> [frames |-> n, fps |-> f, sample_rate |-> r, diffs |-> d],
      done |-> FALSE, ret |-> <<>>] :
        n \in 0..MaxFrames, f \in {1, 2, 5}, r \in {1, 2, 3, 5},
        d \in FrameDiffs}

\* The function under evaluation returns `value`.
Returns(value) ==
    /\ ~call.done
    /\ call' = [call EXCEPT !.done = TRUE, !.ret = value]
    /\ UNCHANGED <<jobVars, renderVars>>

CallDetectHookPhrases ==
    /\ call.fn = "detect_hook_phrases"
    /\ Returns(
            DetectHookPhrases(call.args.words, call.args.start_s,
                              call.args.end_s))

CallScoreCandidate ==
    /\ call.fn = "score_candidate"
    /\ Returns(
            ScoreCandidate(call.args.start_s, call.args.end_s, call.args.words,
                           MotionScores, AudioScores, call.args.keywords,
                           call.args.existing, LoadConfig.scoring.weights))

CallDetectScenes ==
    /\ call.fn = "detect_scenes"
    /\ Returns(
            SceneBoundaries(call.args.frames, call.args.fps,
                            call.args.duration, call.args.cuts))

CallTopCandidates ==
    /\ call.fn = "top_candidates"
    /\ Returns(
            TopCandidates(call.args.scene_boundaries, call.args.duration,
                          call.args.words, call.args.motion_scores,
                          call.args.audio_scores, call.args.config))

CallComputeMotionScores ==
    /\ call.fn = "compute_motion_scores"
    /\ Returns(
            ComputeMotionScores(call.args.frames, call.args.fps,
                                call.args.sample_rate, call.args.diffs))

\* lines 356-386: candidates, in the order they are appended
CallEnumerate ==
    /\ call.fn = "enumerate"
    /\ Returns(
            Enumerate(call.args.scene_boundaries, call.args.duration,
                      call.args.words, MotionScores, AudioScores,
                      call.args.config))

InitScoring ==
    /\ EmptySystem
    /\ call \in HookCalls \cup ScoreCalls \cup SceneCalls \cup CandidateCalls
                \cup EnumerateCalls \cup MotionCalls

NextScoring ==
    \/ CallDetectHookPhrases
    \/ CallScoreCandidate
    \/ CallDetectScenes
    \/ CallTopCandidates
    \/ CallEnumerate
    \/ CallComputeMotionScores

SpecScoring == InitScoring /\ [][NextScoring]_vars

(* ------------------------ TemplateRenderer ---------------------------- *)
\* An ffmpeg command is a sequence of arguments.  A literal argument is
\* Arg(text); str(x) of a time x is Float(x); the -filter_complex argument
\* is the graph itself: a sequence of chains [in, filters, out], a filter
\* being a record with its name and options.
Arg(text) == [kind |-> "arg", text |-> text]
\* str(x) of a float: "5.0", "12.5"
Float(x) == [kind |-> "float", int |-> x \div 10, frac |-> x % 10]
FilterComplex(chains) == [kind |-> "filter_complex", chains |-> chains]

\* lines 45-60: scale to cover the canvas, then crop to it
Canvas(aspect) ==
    IF aspect = "9:16" THEN <<1080, 1920>>
    ELSE IF aspect = "1:1" THEN <<1080, 1080>>
    ELSE <<1080, 1350>>

ScaleCrop(aspect) ==
    <<[name |-> "scale", size |-> Canvas(aspect),
       force_original_aspect_ratio |-> "increase"],
      [name |-> "crop", size |-> Canvas(aspect)]>>

\* line 64: the zoom of the manga template
ZoomPan == [name |-> "zoompan", z |-> "min(zoom+0.0005,1.05)", d |-> 1,
            size |-> <<1080, 1920>>]

\* lines 67-71
WatermarkFilter(self) ==
    [name |-> "drawtext", text |-> self.watermark, fontsize |-> 24,
     fontcolor |-> "white@0.6", y |-> 20, enable |-> <<>>]

\* cap['word'].replace("'", "\\'").replace(":", "\\:")
Escape(word) == Replace(Replace(word, "'", <<"\\", "'">>), ":", <<"\\", ":">>)

DrawText(text, fontsize, fontcolor, y, cap, start) ==
    [name |-> "drawtext", text |-> text, fontsize |-> fontsize,
     fontcolor |-> fontcolor, y |-> y,
     enable |-> <<cap.start - start, cap.end - start>>]

\* _build_clean_captions
BuildCleanCaptions(captions, y, start) ==
    [i \in 1..Len(captions) |->
        DrawText(Escape(captions[i].word), 48, "white", y, captions[i], start)]

\* _build_manga_captions
BuildMangaCaptions(captions, y, start) ==
    [i \in 1..Len(captions) |->
        DrawText(Escape(captions[i].word), 56, "yellow", y, captions[i], start)]

\* _build_impact_captions; enumerate() counts from 0
BuildImpactCaptions(captions, y, start) ==
    [i \in 1..Len(captions) |->
        LET word == captions[i].word
            is_emphasized ==
                word # <<>> /\ \E k \in 1..Len(UpperCase) : UpperCase[k] = word[1] IN
        DrawText(Escape(word), IF is_emphasized THEN 60 ELSE 50,
                 IF is_emphasized THEN "red" ELSE "white",
                 y - (i - 1) * 10, captions[i], start)]

\* _build_karaoke_captions: the whole line in gray, then each word in yellow
BuildKaraokeCaptions(captions, y, start) ==
    <<[name |-> "drawtext",
       text |-> Escape(Join([i \in 1..Len(captions) |-> captions[i].word],
                            <<" ">>)),
       fontsize |-> 48, fontcolor |-> "gray", y |-> y, enable |-> <<>>]>>
    \o [i \in 1..Len(captions) |->
           DrawText(Escape(captions[i].word), 48, "yellow", y, captions[i], start)]

\* build_caption_filter
BuildCaptionFilter(captions, template, aspect, video_start) ==
    LET safe_y == IF aspect = "9:16" THEN 1920 - 300
                  ELSE IF aspect = "1:1" THEN 1080 - 200
                  ELSE 1350 - 250 IN
    IF captions = <<>> THEN <<>>
    ELSE IF template = "clean"
    THEN BuildCleanCaptions(captions, safe_y, video_start)
    ELSE IF template = "manga"
    THEN BuildMangaCaptions(captions, safe_y, video_start)
    ELSE IF template = "impact"
    THEN BuildImpactCaptions(captions, safe_y, video_start)
    ELSE IF template = "karaoke"
    THEN BuildKaraokeCaptions(captions, safe_y, video_start)
    ELSE <<>>

\* lines 36-40
BaseCommand(self, start_s, end_s) ==
    <<Arg("ffmpeg"), Arg("-ss"), Float(start_s), Arg("-i"),
      Arg(self.video_path), Arg("-t"), Float(end_s - start_s)>>

\* lines 42-79: the chain from [0:v] to [v]
VideoChain(self, start_s, captions, template, aspect) ==
    [in |-> "0:v",
     filters |-> ScaleCrop(aspect)
                 \o (IF template = "manga" THEN <<ZoomPan>> ELSE <<>>)
                 \o <<WatermarkFilter(self)>>
                 \o BuildCaptionFilter(captions, template, aspect, start_s),
     out |-> "v"]

\* lines 81-86: the chain from [0:a] to [a]
AudioChain(self) ==
    [in |-> "0:a",
     filters |-> <<[name |-> "loudnorm", I |-> self.loudness, TP |-> -1,
                    LRA |-> 11],
                   [name |-> "aformat", sample_rates |-> 48000]>>,
     out |-> "a"]

\* lines 91-106
MapAndEncode(self) ==
    <<Arg("-map"), Arg("[v]"), Arg("-map"), Arg("[a]"),
      Arg("-c:v"), Arg("libx264"), Arg("-preset"), Arg("fast"),
      Arg("-crf"), Arg("23"), Arg("-profile:v"), Arg("high"),
      Arg("-pix_fmt"), Arg("yuv420p"), Arg("-movflags"), Arg("+faststart"),
      Arg("-c:a"), Arg("aac"), Arg("-b:a"), Arg("128k"),
      Arg("-y"), Arg(self.output_path)>>

\* A command whose karaoke renders are cut by one second.
BuildFfmpegCommandTrimmed(self, start_s, end_s, captions, template, aspect) ==
    BaseCommand(self, start_s,
                IF template = "karaoke" THEN end_s - 10 ELSE end_s)
    \o <<Arg("-filter_complex"),
         FilterComplex(<<VideoChain(self, start_s, captions, template, aspect),
                         AudioChain(self)>>)>>
    \o MapAndEncode(self)

\* TemplateRenderer.build_ffmpeg_command
BuildFfmpegCommand(self, start_s, end_s, captions, template, aspect) ==
    BaseCommand(self, start_s, end_s)
    \o <<Arg("-filter_complex"),
         FilterComplex(<<VideoChain(self, start_s, captions, template, aspect),
                         AudioChain(self)>>)>>
    \o MapAndEncode(self)

\* The frame size a chain of filters leaves: crop and zoompan set it, scale
\* with force_original_aspect_ratio=increase covers at least its size, and
\* drawtext draws on the frame it is given.
RECURSIVE FrameSizeAfter(_, _)
FrameSizeAfter(filters, n) ==
    IF n = 0 THEN <<0, 0>>
    ELSE IF filters[n].name \in {"scale", "crop", "zoompan"}
    THEN filters[n].size
    ELSE FrameSizeAfter(filters, n - 1)

FrameSize(filters) == FrameSizeAfter(filters, Len(filters))

\* The argument that follows an option of the command.
OptionValue(cmd, flag) ==
    cmd[(CHOOSE i \in 1..(Len(cmd) - 1) :
            cmd[i].kind = "arg" /\ cmd[i].text = flag) + 1]

\* The chain of the filter graph that reads the given input.
ChainOf(cmd, input) ==
    LET chains == OptionValue(cmd, "-filter_complex").chains IN
    chains[CHOOSE i \in 1..Len(chains) : chains[i].in = input]

(* --------------- build_ffmpeg_command applied to inputs ---------------- *)
\* Words of a transcript as render_clips_task passes them, with the
\* characters the caption builders escape.
Spoken ==
    <<[word |-> <<"D", "o", "n", "'", "t">>, start |-> 52, end |-> 58],
      [word |-> <<"g", "o", ":">>, start |-> 60, end |-> 66]>>
CaptionLists == {<<>>, <<Hooked[1]>>, Spoken}

\* RenderRequest.watermark: any str
Watermarks == {<<"@", "m", "e">>, <<"8", ":", "3", "0">>, <<"i", "t", "'", "s">>}

\* TemplateRenderer(video_path, output_path, config) of render_clips_task
Renderers ==
    {[video_path |-> "/tmp/videos/1.mp4", output_path |-> "/tmp/videos/out.mp4",
      watermark |-> m, loudness |-> "-14"] : m \in Watermarks}

Clips == {<<0, 100>>, <<50, 125>>, <<20, 90>>}

CommandCalls ==
    {[fn |-> "build_ffmpeg_command",
      args |-> [self |-> r, start_s |-> c[1], end_s |-> c[2], captions |-> w,
                template |-> t, aspect |-> a],
      done |-> FALSE, ret |-> <<>>] :
        r \in Renderers, c \in Clips, w \in CaptionLists, t \in Templates,
        a \in ValidOutputs}

CallBuildFfmpegCommand ==
    /\ call.fn = "build_ffmpeg_command"
    /\ Returns(BuildFfmpegCommand(call.args.self, call.args.start_s,
                                  call.args.end_s, call.args.captions,
                                  call.args.template, call.args.aspect))

InitCommand ==
    /\ EmptySystem
    /\ call \in CommandCalls

NextCommand == CallBuildFfmpegCommand

SpecCommand == InitCommand /\ [][NextCommand]_vars

(* ------------------- submissions and their retries -------------------- *)
\* The parameters a run of analyze_video_task works with, as the task and
\* its VideoAnalyzer read them from the config of the message.
RunParameters(config) ==
    LET weights == Get(config, "weights", <<>>) IN
    [clip_min_s |-> Get(config, "clip_min_s", 7),
     clip_max_s |-> Get(config, "clip_max_s", 15),
     target_s |-> Get(config, "target_s", 10),
     keywords |-> Get(config, "keywords", <<>>),
     weights |-> [speech_hook |-> Weight(weights, "speech_hook", 30),
                  motion |-> Weight(weights, "motion", 25),
                  audio_peak |-> Weight(weights, "audio_peak", 20),
                  keyword_match |-> Weight(weights, "keyword_match", 15),
                  scene_freshness |-> Weight(weights, "scene_freshness", 10)],
     max_candidates |-> Get(config, "max_candidates", 20),
     whisper_model |-> Get(config, "whisper_model", "base"),
     language |-> Get(config, "language", "None")]

\* The requests sent here: keywords and targets left out or given.
SubmittedKeywords == {NoKeywords, <<Str_wait>>}
SubmittedTargets == {NoTargets, [clip_max_s |-> 12]}

NextRetry ==
    \/ \E u \in Users, v \in Videos :
        \E keywords \in SubmittedKeywords, targets \in SubmittedTargets :
           StartAnalysis(u, v, keywords, targets)
    \/ \E u \in Users, j \in 1..MaxJobs : RetryJob(u, j)
    \/ \E w \in Workers :
        \/ Deliver(w)
        \/ Begin(w)
        \/ Download(w)
        \/ Metadata(w, VideoDuration)
        \/ Transcribe(w)
        \/ DetectScenes(w)
        \/ Motion(w)
        \/ AudioPeaks(w)
        \/ \E n \in 0..MaxCands : Generate(w, n)
        \/ ThumbnailsBegin(w)
        \/ Thumbnail(w)
        \/ Complete(w)
        \/ Cleanup(w)

SpecRetry == Init /\ [][NextRetry]_vars

(* ------------------- the job system under fairness -------------------- *)
\* A Job row of the other kind the jobs table holds (models.py: type is
\* 'analyze' or 'render'), failed.
FailedRenderJob ==
    [video |-> 1, type |-> "render", status |-> "failed", progress |-> 0,
     logs |-> [error |-> "FFmpeg failed"]]

\* The system with an empty jobs table, or with one failed render Job.
InitLive ==
    /\ jobs \in {<<>>, <<FailedRenderJob>>}
    /\ videos = [v \in Videos |-> [duration |-> -1]]
    /\ transcripts = EmptyBag
    /\ candidates = EmptyBag
    /\ queue = <<>>
    /\ delivered = {}
    /\ redelivered = 0
    /\ wk = [w \in Workers |-> Idle]
    /\ files = {}
    /\ objects = {}
    /\ renders = <<>>
    /\ rqueue = <<>>
    /\ rdelivered = {}
    /\ rwk = [w \in RenderWorkers |-> RIdle]
    /\ call = NoCall

\* A step of worker process w: it takes a message, or its task goes on.
WorkerStep(w) ==
    \/ Deliver(w)
    \/ Begin(w)
    \/ Download(w)
    \/ Metadata(w, VideoDuration)
    \/ Transcribe(w)
    \/ DetectScenes(w)
    \/ Motion(w)
    \/ AudioPeaks(w)
    \/ \E n \in 0..MaxCands : Generate(w, n)
    \/ ThumbnailsBegin(w)
    \/ Thumbnail(w)
    \/ Complete(w)
    \/ Cleanup(w)

NextLive ==
    \/ \E u \in Users, v \in Videos : StartAnalysis(u, v, NoKeywords, NoTargets)
    \/ \E u \in Users, j \in 1..MaxJobs : RetryJob(u, j)
    \/ \E u \in Users, j \in 1..MaxJobs : CancelJob(u, j)
    \/ \E w \in Workers : WorkerStep(w)

\* The queue delivers every message and every sub-step terminates.
SpecLive ==
    InitLive /\ [][NextLive]_vars /\ \A w \in Workers : WF_vars(WorkerStep(w))

(* ------------- analysis and rendering on one scratch directory -------- *)
\* Video 1 has been analysed once and its run retained one candidate; the
\* workers of both queues run on one host and share /tmp/videos.
InitShared ==
    /\ jobs = <<AnalysedJob(1)>>
    /\ videos = [v \in Videos |->
                    [duration |-> IF v = 1 THEN VideoDuration ELSE -1]]
    /\ transcripts = SetToBag({[video |-> 1, job |-> 1]})
    /\ candidates = SetToBag({[video |-> 1, job |-> 1, idx |-> 0,
                               thumb |-> ThumbKey(1, 0)]})
    /\ queue = <<>>
    /\ delivered = {Message(1, 1, AnalysisConfig(NoKeywords, NoTargets))}
    /\ redelivered = 0
    /\ wk = [w \in Workers |-> Idle]
    /\ files = {ThumbPath(1, 0)}
    /\ objects = {ThumbKey(1, 0)}
    /\ renders = <<>>
    /\ rqueue = <<>>
    /\ rdelivered = {}
    /\ rwk = [w \in RenderWorkers |-> RIdle]
    /\ call = NoCall

\* The owner of video 1 has it analysed again and renders its candidate once.
NextShared ==
    \/ \E v \in Videos : StartAnalysis(VideoOwner(1), v, NoKeywords, NoTargets)
    \/ \E w \in Workers : WorkerStep(w)
    \/ \E o \in {<<"9:16">>, <<"9:16", "1:1">>} :
        /\ renders = <<>>
        /\ CreateRender(VideoOwner(1), RenderRequest(<< <<1, 0>> >>, "clean", o))
    \/ \E w \in RenderWorkers :
        \/ RDeliver(w)
        \/ RBegin(w)
        \/ RCandidate(w)
        \/ RTranscode(w)
        \/ RUpload(w)
        \/ RNextCandidate(w)
        \/ RComplete(w)

SpecShared == InitShared /\ [][NextShared]_vars

(* ------------- analyses that retain several candidates --------------- *)
\* the most candidates a run retains here
MaxRetained == 2

NextPersist ==
    \/ \E u \in Users, v \in Videos : StartAnalysis(u, v, NoKeywords, NoTargets)
    \/ \E w \in Workers :
        \/ Deliver(w)
        \/ Begin(w)
        \/ Download(w)
        \/ Metadata(w, VideoDuration)
        \/ Transcribe(w)
        \/ DetectScenes(w)
        \/ Motion(w)
        \/ AudioPeaks(w)
        \/ \E n \in 0..MaxRetained : Generate(w, n)
        \/ ThumbnailsBegin(w)
        \/ Thumbnail(w)
        \/ Complete(w)
        \/ Cleanup(w)

SpecPersist == Init /\ [][NextPersist]_vars

(* ----------------------------- uploads --------------------------------- *)
\* api/vidoes.py and services/s3_service.py.  Keys and URLs are sequences of
\* tokens: "/" and "." are tokens of their own, an id is one token.

\* initialize_upload: MAX_SIZE, in GiB.
MAX_SIZE == 2

\* initialize_upload: allowed_types.
allowed_types == {"video/mp4", "video/x-matroska", "video/avi", "video/quicktime", "video/x-msvideo"}

\* initialize_upload: ext_map.get(content_type, 'mp4').
ext_map(content_type) ==
    CASE content_type = "video/mp4" -> "mp4"
      [] content_type = "video/x-matroska" -> "mkv"
      [] content_type = "video/avi" -> "avi"
      [] content_type = "video/quicktime" -> "mov"
      [] content_type = "video/x-msvideo" -> "avi"
      [] OTHER -> "mp4"

\* initialize_upload: the response for a request of user_id, with upload_id
\* the uuid generated for it.  upload_url is the signed URL, represented by
\* the bucket and key generate_signed_upload_url signs.
InitializeUploadResponse(S3_BUCKET, user_id, upload_id, filesize, content_type) ==
    IF filesize > MAX_SIZE \/ content_type \notin allowed_types
    THEN [status |-> 400]
    ELSE [status |-> 200, upload_id |-> upload_id,
          upload_url |-> [Bucket |-> S3_BUCKET,
                          Key |-> <<"uploads", "/", user_id, "/", upload_id, ".", ext_map(content_type)>>]]

\* create_video: the s3_url stored in Video.src_url.
SrcUrl(user_id, upload_id) ==
    <<"s3://", "anime-clips", "/", "uploads", "/", user_id, "/", upload_id, ".", "mp4">>

\* str.split('/', 1): the index of the first "/" of s, 0 when there is none.
FirstSlash(s) ==
    IF \E i \in 1..Len(s) : s[i] = "/"
    THEN CHOOSE i \in 1..Len(s) : s[i] = "/" /\ \A k \in 1..(i - 1) : s[k] # "/"
    ELSE 0

\* download_from_s3: the bucket and key read out of s3_url.
ParseS3Url(S3_BUCKET, s3_url) ==
    IF Len(s3_url) > 0 /\ s3_url[1] = "s3://"
    THEN LET rest == SubSeq(s3_url, 2, Len(s3_url))
             cut == FirstSlash(rest)
         IN  IF cut = 0
             THEN [Bucket |-> rest, Key |-> <<>>]
             ELSE [Bucket |-> SubSeq(rest, 1, cut - 1), Key |-> SubSeq(rest, cut + 1, Len(rest))]
    ELSE [Bucket |-> <<S3_BUCKET>>, Key |-> s3_url]

ContentTypes == allowed_types \cup {"image/png"}
Buckets == {"anime-clips", "clips-dev"}
UploadIds == {"u1", "u2"}

UploadCalls ==
    {[fn |-> "initialize_upload",
      args |-> [S3_BUCKET |-> b, user_id |-> u, upload_id |-> id, filesize |-> size, content_type |-> t],
      done |-> FALSE, ret |-> <<>>] :
        b \in Buckets, u \in Users, id \in UploadIds, size \in 1..(MAX_SIZE + 1), t \in ContentTypes}

CallInitializeUpload ==
    /\ call.fn = "initialize_upload"
    /\ Returns(InitializeUploadResponse(call.args.S3_BUCKET, call.args.user_id,
                                        call.args.upload_id, call.args.filesize,
                                        call.args.content_type))

\* The client that was given an upload_id posts it to create_video; the
\* call keeps the response of initialize_upload in issued.
CallCreateVideo ==
    /\ call.fn = "initialize_upload"
    /\ call.done
    /\ call.ret.status = 200
    /\ call' = [fn |-> "create_video",
                args |-> [S3_BUCKET |-> call.args.S3_BUCKET, user_id |-> call.args.user_id,
                          upload_id |-> call.ret.upload_id,
                          content_type |-> call.args.content_type],
                issued |-> call.ret,
                done |-> TRUE,
                ret |-> [src_url |-> SrcUrl(call.args.user_id, call.ret.upload_id)]]
    /\ UNCHANGED <<jobVars, renderVars>>

InitUpload ==
    /\ EmptySystem
    /\ call \in UploadCalls

NextUpload ==
    \/ CallInitializeUpload
    \/ CallCreateVideo

SpecUpload == InitUpload /\ [][NextUpload]_vars

(* ============================== claims ================================= *)
Terminal == {"completed", "failed", "cancelled"}
Running(w) == wk[w].pc \notin {"idle", "exited"}

\* An analyze Job of video v that is pending or processing.
ActiveAnalyze(v) ==
    \E j \in 1..Len(jobs) :
        /\ jobs[j].video = v /\ jobs[j].type = "analyze"
        /\ jobs[j].status = "pending" \/ jobs[j].status = "processing"

(* C1: once a Job's status is completed, failed or cancelled, no step of   *)
(* any handler, worker or redelivery changes it.                           *)
C1_TerminalAbsorbing ==
    [][\A j \in 1..Len(jobs) :
          jobs[j].status \in Terminal => jobs'[j].status = jobs[j].status]_vars

(* C2: no two executions of analyze_video_task run for the same video at   *)
(* the same time, whatever start_analysis, retry_job, cancel_job and the   *)
(* workers do (stated for runs in which the queue redelivers nothing).     *)
C2_OneExecutionPerVideo ==
    redelivered = 0 =>
        \A w1, w2 \in Workers :
            (w1 # w2 /\ Running(w1) /\ Running(w2))
                => wk[w1].video # wk[w2].video

(* C3: start_analysis by the owner of a video that has a pending or        *)
(* processing analyze Job answers 409 Conflict and changes neither the     *)
(* jobs table nor the queue; with no such Job (for instance after it       *)
(* completed) it answers 201, appends one pending Job for the video and    *)
(* enqueues one message carrying that Job's id.                            *)
C3_Step(v) ==
    StartAnalysis(VideoOwner(v), v, NoKeywords, NoTargets) =>
        IF ActiveAnalyze(v)
        THEN jobs' = jobs /\ queue' = queue
        ELSE /\ Len(jobs') = Len(jobs) + 1
             /\ SubSeq(jobs', 1, Len(jobs)) = jobs
             /\ jobs'[Len(jobs')].video = v
             /\ jobs'[Len(jobs')].type = "analyze"
             /\ jobs'[Len(jobs')].status = "pending"
             /\ Len(queue') = Len(queue) + 1
             /\ queue'[Len(queue')].job = Len(jobs')
             /\ queue'[Len(queue')].video = v

C3_Answer ==
    \A v \in Videos :
        StartAnalysisStatus(VideoOwner(v), v) =
            IF ActiveAnalyze(v) THEN 409 ELSE 201

C3_AdmissionConflict ==
    /\ []C3_Answer
    /\ [][\A v \in Videos : C3_Step(v)]_vars

\* A video whose first analysis completed and which was then submitted
\* again: the second Job is active, so a third submission is refused.
C3_Witness ==
    \E v \in Videos : \E j1, j2 \in 1..Len(jobs) :
        /\ j1 < j2
        /\ jobs[j1].video = v /\ jobs[j1].status = "completed"
        /\ jobs[j2].video = v /\ jobs[j2].status = "pending"
        /\ StartAnalysisStatus(VideoOwner(v), v) = 409

\* Worker w takes a step of its task.
Steps(w) == Running(w) /\ wk'[w] # wk[w]

(* C4: a worker whose Job was set to cancelled while it was processing     *)
(* stops at its next milestone: its next step ends the task, runs no       *)
(* sub-step and writes no Candidate.                                       *)
C4_CancelObserved ==
    [][\A w \in Workers :
          (/\ Steps(w)
           /\ wk[w].pc # "start"
           /\ jobs[wk[w].job].status = "cancelled")
          => /\ wk'[w].pc = "exited"
             /\ candidates' = candidates
             /\ transcripts' = transcripts
             /\ files' \subseteq files
             /\ objects' = objects]_vars

(* C5: a Job cancelled while pending is never processed: the worker that   *)
(* receives its message downloads nothing, writes no Transcript and no     *)
(* Candidate, and leaves the status cancelled.                             *)
C5_CancelledNeverProcessed ==
    [][\A w \in Workers :
          (/\ Steps(w)
           /\ wk[w].pc = "start"
           /\ wk[w].job \in JobIds
           /\ jobs[wk[w].job].status = "cancelled")
          => /\ wk'[w].pc = "exited"
             /\ jobs'[wk[w].job].status = "cancelled"
             /\ files' = files
             /\ transcripts' = transcripts
             /\ candidates' = candidates]_vars

(* C6: whatever the queue redelivers, the pipeline body runs at most once  *)
(* per Job: a Job has at most one Transcript and no Candidate twice.       *)
C6_AtMostOnce ==
    /\ \A row \in BagToSet(transcripts) : CopiesIn(row, transcripts) <= 1
    /\ \A row \in BagToSet(candidates) : CopiesIn(row, candidates) <= 1

(* C7: each (progress, step) milestone is written to the Job before its    *)
(* sub-step begins: while a worker is past a milestone, the Job row shows  *)
(* that milestone's progress and step (stated for runs in which the queue  *)
(* redelivers nothing, so that a Job has one execution).                   *)
C7_MilestonesOnJob ==
    redelivered = 0 =>
        \A w \in Workers :
            (Running(w) /\ wk[w].meta.progress > 0
                        /\ jobs[wk[w].job].status = "processing")
            => /\ jobs[wk[w].job].progress = wk[w].meta.progress
               /\ "step" \in DOMAIN jobs[wk[w].job].logs
               /\ jobs[wk[w].job].logs.step = wk[w].meta.step

(* C8: when a sub-step of analyze_video_task raises, the task ends with    *)
(* the Job failed, logs.error holding the exception's message, and the     *)
(* exception re-raised.                                                    *)
C8_FailureRecorded ==
    [][\A w \in Workers :
          (Steps(w) /\ wk'[w].pc = "exited" /\ wk'[w].result = "raised")
          => /\ wk'[w].error # ""
             /\ jobs'[wk[w].job].status = "failed"
             /\ "error" \in DOMAIN jobs'[wk[w].job].logs
             /\ jobs'[wk[w].job].logs.error = wk'[w].error]_vars

\* Every kind of raise has happened: a download, a toolchain and a
\* transcription failure, each recorded on its Job.
C8_Witness ==
    \E w \in Workers :
        /\ wk[w].pc = "exited" /\ wk[w].result = "raised"
        /\ wk[w].error = TranscriptionError
        /\ jobs[wk[w].job].status = "failed"
        /\ jobs[wk[w].job].logs.error = TranscriptionError

(* C9: when analyze_video_task exits, by return or by raise, none of the   *)
(* scratch files its run created is left on the worker's disk.             *)
C9_NoScratchLeft ==
    [][\A w \in Workers :
          (Steps(w) /\ wk'[w].pc = "exited")
          => wk'[w].created \cap files' = {}]_vars

(* C10: in every reachable state each owner has at most 3 Renders that     *)
(* are pending or processing, whatever create_render and batch_render      *)
(* requests the owner sends.                                               *)
C10_ActiveRendersCap ==
    \A u \in Users :
        Cardinality({r \in 1..Len(renders) :
            /\ renders[r].user = u
            /\ renders[r].status = "pending"
                   \/ renders[r].status = "processing"}) <= 3

(* C11: once a render task has ended, Render.files[candidate][aspect] is   *)
(* present exactly for the (candidate, aspect) pairs whose output was      *)
(* uploaded, also when a later pair failed and the Render is failed.       *)
C11_FilesRecordUploads ==
    \A r \in RenderIds :
        renders[r].status \in {"completed", "failed"} =>
            \A row \in BagToSet(candidates) : \A aspect \in ValidOutputs :
                RenderKey(r, CandidateId(row), aspect) \in objects
                <=> /\ CandidateId(row) \in DOMAIN renders[r].files
                    /\ aspect \in DOMAIN renders[r].files[CandidateId(row)]

Returned(fn) == call.fn = fn /\ call.done

(* C12: every Candidate analyze_video_task persists has                    *)
(* 0 <= start_s < end_s <= duration and a length between clip_min_s and    *)
(* clip_max_s, whatever the scene boundaries and the submitted targets.    *)
C12_CandidateBounds ==
    Returned("top_candidates") =>
        \A i \in 1..Len(call.ret) :
            LET c == call.ret[i]
                cfg == call.args.config IN
            /\ 0 <= c.start_s
            /\ c.start_s < c.end_s
            /\ c.end_s <= call.args.duration
            /\ Seconds(cfg.clip_min_s) <= c.end_s - c.start_s
            /\ c.end_s - c.start_s <= Seconds(cfg.clip_max_s)

(* C13: for the transcript wait@0.2, what@0.6, is@1.1 and the interval     *)
(* [0, 10] detect_hook_phrases returns 0.8.                                *)
C13_HookExample ==
    (/\ Returned("detect_hook_phrases")
     /\ call.args.words = Hooked
     /\ call.args.start_s = 0 /\ call.args.end_s = 100)
    => call.ret = Frac(8, 10)

\* The length of the overlaps of <<a, b>> with the intervals of l, summed.
RECURSIVE C14_Overlap(_, _, _)
C14_Overlap(a, b, l) ==
    IF l = <<>> THEN 0
    ELSE LET lo == IF a > l[1][1] THEN a ELSE l[1][1]
             hi == IF b < l[1][2] THEN b ELSE l[1][2] IN
         (IF hi > lo THEN hi - lo ELSE 0) + C14_Overlap(a, b, Tail(l))

(* C14: scene_freshness of score_candidate is max(0, 1 - sum of            *)
(* overlap/(b-a)) over the accepted intervals, lies in [0, 1], does not    *)
(* grow when one more interval is accepted, and is 0.5 for [5, 15] after   *)
(* [0, 10].                                                                *)
C14_Freshness ==
    Returned("score_candidate") =>
        LET a == call.args.start_s
            b == call.args.end_s
            l == call.args.existing
            f == call.ret.features.scene_freshness
            more(x) == ScoreCandidate(a, b, call.args.words, MotionScores,
                           AudioScores, call.args.keywords, Append(l, x),
                           LoadConfig.scoring.weights).features.scene_freshness IN
        /\ f.d > 0 /\ f.n >= 0 /\ f.n <= f.d
        /\ f.n * (b - a) =
               f.d * (IF C14_Overlap(a, b, l) >= b - a THEN 0
                      ELSE (b - a) - C14_Overlap(a, b, l))
        /\ \A x \in Intervals : ~FLess(f, more(x))
        /\ (a = 50 /\ b = 150 /\ l = << <<0, 100>> >>) => f = Frac(1, 2)

\* [5, 15] scored after [0, 10]; and an interval covered twice over.
C14_Witness ==
    /\ Returned("score_candidate")
    /\ call.args.start_s = 50 /\ call.args.end_s = 150
    /\ call.args.existing = << <<0, 100>> >>
    /\ call.ret.features.scene_freshness = Frac(1, 2)

(* C15: with an empty transcript score_candidate gives speech_hook = 0     *)
(* and keyword_match = 0, whatever keywords were submitted.                *)
C15_SilentVideo ==
    (Returned("score_candidate") /\ call.args.words = <<>>)
    => /\ call.ret.features.speech_hook = Zero
       /\ call.ret.features.keyword_match = Zero

(* C18: detect_scenes returns a list that starts with 0.0, ends with the   *)
(* probed duration and is strictly increasing, for every video, also one   *)
(* of duration 0.                                                          *)
C18_SceneBoundaries ==
    Returned("detect_scenes") =>
        /\ call.ret[1] = 0
        /\ call.ret[Len(call.ret)] = call.args.duration
        /\ \A i \in 1..(Len(call.ret) - 1) : call.ret[i] < call.ret[i + 1]

(* C16: for every template and every aspect the video filter chain of the  *)
(* command build_ffmpeg_command returns ends with the frame size of the    *)
(* aspect's canvas: 1080x1920 for 9:16, 1080x1080 for 1:1, 1080x1350 for   *)
(* 4:5.                                                                    *)
C16_CanvasSize ==
    Returned("build_ffmpeg_command") =>
        LET size == FrameSize(ChainOf(call.ret, "0:v").filters) IN
        /\ call.args.aspect = "9:16" => size = <<1080, 1920>>
        /\ call.args.aspect = "1:1" => size = <<1080, 1080>>
        /\ call.args.aspect = "4:5" => size = <<1080, 1350>>

\* What C17 compares of a command.
DurationAndAudio(cmd) ==
    [seek |-> OptionValue(cmd, "-ss"),
     duration |-> OptionValue(cmd, "-t"),
     audio_filter |-> ChainOf(cmd, "0:a"),
     audio_codec |-> OptionValue(cmd, "-c:a"),
     audio_bitrate |-> OptionValue(cmd, "-b:a")]

(* C17: two commands of build_ffmpeg_command built from inputs that differ *)
(* only in the template have the same seek start, the same -t duration,    *)
(* the same audio filter chain and the same audio encoding arguments.      *)
C17_TemplateIsolation ==
    Returned("build_ffmpeg_command") =>
        \A template \in Templates :
            DurationAndAudio(call.ret) =
                DurationAndAudio(
                    BuildFfmpegCommand(call.args.self, call.args.start_s,
                                       call.args.end_s, call.args.captions,
                                       template, call.args.aspect))

\* a karaoke command with captions has returned, and its video chain is
\* not the one the clean template builds from the same inputs
C17_Witness ==
    /\ Returned("build_ffmpeg_command")
    /\ call.args.template = "karaoke"
    /\ call.args.captions # <<>>
    /\ ChainOf(call.ret, "0:v") #
           ChainOf(BuildFfmpegCommand(call.args.self, call.args.start_s,
                                      call.args.end_s, call.args.captions,
                                      "clean", call.args.aspect), "0:v")

\* The messages sent so far: those waiting and those handed to a worker.
Sent == {queue[i] : i \in 1..Len(queue)} \cup delivered

(* C19: the run of a Job that retry_job created for a failed analyze Job   *)
(* receives the parameters the failed Job was submitted with: keywords,    *)
(* clip_min_s, clip_max_s, target_s, max_candidates, weights and the model *)
(* settings.                                                               *)
C19_RetrySameParameters ==
    \A retry \in Sent, original \in Sent :
        /\ "retried_from" \in DOMAIN jobs[retry.job].logs
        /\ jobs[retry.job].logs.retried_from = original.job
        => RunParameters(retry.config) = RunParameters(original.config)

(* C20: while an execution of analyze_video_task runs for a Job, the       *)
(* progress persisted on that Job never decreases, and the progress of     *)
(* every Job lies in 0..100.                                               *)
C20_ProgressMonotone ==
    /\ [](\A j \in 1..Len(jobs) : jobs[j].progress \in 0..100)
    /\ [][\A w \in Workers :
             (Running(w) /\ wk[w].pc # "start")
             => jobs'[wk[w].job].progress >= jobs[wk[w].job].progress]_vars

\* The object-store keys a completed Render references.
RenderKeys(r) ==
    IF renders[r].status # "completed" THEN {}
    ELSE UNION {{renders[r].files[c][a] : a \in DOMAIN renders[r].files[c]} :
                   c \in DOMAIN renders[r].files}

(* C21: every object-store key belongs to exactly one persisted artifact:  *)
(* no two persisted Candidates reference the same thumbnail key, also      *)
(* after a second analysis of the same video, and no two Renders reference *)
(* the same output key.                                                    *)
C21_KeysUnique ==
    /\ \A r1 \in BagToSet(candidates), r2 \in BagToSet(candidates) :
           r1.thumb = r2.thumb => r1 = r2 /\ CopiesIn(r1, candidates) = 1
    /\ \A r1 \in RenderIds, r2 \in RenderIds :
           r1 # r2 => RenderKeys(r1) \cap RenderKeys(r2) = {}

\* The enumeration as specified: step s is the pair s \div 3 of adjacent
\* boundaries and the trial s % 3 of [target_s, clip_min_s, clip_max_s].
RECURSIVE C22_Specified(_, _, _, _)
C22_Specified(s, scene_boundaries, duration, cfg) ==
    IF s >= 3 * (Len(scene_boundaries) - 1) THEN <<>>
    ELSE LET s_i == scene_boundaries[(s \div 3) + 1]
             s_next == scene_boundaries[(s \div 3) + 2]
             trial == Seconds(<<cfg.target_s, cfg.clip_min_s,
                                cfg.clip_max_s>>[(s % 3) + 1])
             end == Min3(s_i + trial, s_next, duration) IN
         (IF end - s_i >= Seconds(cfg.clip_min_s) THEN << <<s_i, end>> >>
          ELSE <<>>)
         \o C22_Specified(s + 1, scene_boundaries, duration, cfg)

(* C22: the intervals the analyzer accepts and scores are, in order, the   *)
(* specified enumeration: for each adjacent pair of boundaries and each    *)
(* trial of [target_s, clip_min_s, clip_max_s], the interval               *)
(* [s_i, min(s_i + trial, s_{i+1}, duration)] iff it is at least           *)
(* clip_min_s long.                                                        *)
C22_Enumeration ==
    Returned("enumerate") =>
        [i \in 1..Len(call.ret) |-> <<call.ret[i].start_s, call.ret[i].end_s>>]
        = C22_Specified(0, call.args.scene_boundaries, call.args.duration,
                        call.args.config)

\* How often x occurs in the sequence xs.
Count(xs, x) == Cardinality({i \in 1..Len(xs) : xs[i] = x})

\* x ranks before y: a higher score, or the same score and no later start.
C23_Before(x, y) ==
    /\ ~FLess(x.score, y.score)
    /\ x.score = y.score => x.start_s <= y.start_s

(* C23: the candidates retained are the max_candidates highest-scoring of  *)
(* the enumerated candidates, in descending score order; among candidates  *)
(* of equal score the one that starts earlier ranks first and is the one   *)
(* retained at the cut-off.                                                *)
C23_TopByScore ==
    Returned("top_candidates") =>
        LET all == Enumerate(call.args.scene_boundaries, call.args.duration,
                             call.args.words, call.args.motion_scores,
                             call.args.audio_scores, call.args.config)
            top == call.ret
            k == call.args.config.max_candidates IN
        /\ Len(top) = IF k < Len(all) THEN k ELSE Len(all)
        /\ \A i \in 1..Len(top), j \in 1..Len(top) :
               i < j => C23_Before(top[i], top[j])
        /\ \A i \in 1..Len(top) : Count(top, top[i]) <= Count(all, top[i])
        /\ \A n \in 1..Len(all) :
               Count(top, all[n]) < Count(all, all[n])
               => \A i \in 1..Len(top) : C23_Before(top[i], all[n])

\* the cut-off has separated two candidates of equal score that start at
\* different times
C23_Witness ==
    /\ Returned("top_candidates")
    /\ LET all == Enumerate(call.args.scene_boundaries, call.args.duration,
                            call.args.words, call.args.motion_scores,
                            call.args.audio_scores, call.args.config) IN
       \E n \in 1..Len(all), i \in 1..Len(call.ret) :
           /\ Count(call.ret, all[n]) = 0
           /\ all[n].score = call.ret[i].score
           /\ all[n].start_s > call.ret[i].start_s

\* The (candidate, aspect) pairs whose render and upload worker w has
\* finished: the entries of its rendered_files.
CompletedPairs(w) ==
    UNION {{<<c, a>> : a \in DOMAIN rwk[w].files[c]} : c \in DOMAIN rwk[w].files}

(* C24: a progress value render_clips_task has just reported equals        *)
(* floor(100 * completed_pairs / total_pairs), completed_pairs being the   *)
(* pairs rendered and uploaded at that moment; so 100 is reported only     *)
(* when every pair has finished.                                           *)
C24_ProgressIsCompleted ==
    \A w \in RenderWorkers :
        rwk[w].pc = "upload" =>
            LET total == Len(rwk[w].params.candidate_ids)
                            * Len(rwk[w].params.outputs) IN
            /\ rwk[w].progress = (100 * Cardinality(CompletedPairs(w))) \div total
            /\ rwk[w].progress = 100 => Cardinality(CompletedPairs(w)) = total

\* The differences sampled during second i of the video, in frame order:
\* every sample but the first has one.
C25_SampledIn(i) ==
    LET a == call.args
        sampled(f) == f % a.sample_rate = 0 /\ f \div a.fps = i IN
    [k \in 1..Cardinality({f \in 1..(a.frames - 1) : sampled(f)}) |->
        a.diffs[CHOOSE f \in 1..(a.frames - 1) :
                    /\ sampled(f)
                    /\ Cardinality({g \in 1..f : sampled(g)}) = k]]

\* Their mean, 0 when there is none.
C25_SecondMean(i) ==
    IF C25_SampledIn(i) = <<>> THEN Zero ELSE Mean(C25_SampledIn(i))

(* C25: element i of the array compute_motion_scores returns is the mean   *)
(* of the frame differences sampled during second i of the video (scaled   *)
(* by the array's maximum when that is positive), for every frame count,   *)
(* fps and sampling step.                                                  *)
C25_IndexIsSecond ==
    (Returned("compute_motion_scores") /\ call.ret.raises = "") =>
        LET n == Len(call.ret.value)
            means == [i \in 1..n |-> C25_SecondMean(i - 1)]
            top == ArrayMax(means) IN
        \A i \in 1..n :
            call.ret.value[i] =
                IF FLess(Zero, top) THEN FDiv(means[i], top) ELSE means[i]

\* Every ' and every : of the text has a backslash in front of it.
C26_Escaped(text) ==
    \A i \in 1..Len(text) :
        text[i] \in {"'", ":"} => i > 1 /\ text[i - 1] = "\\"

(* C26: every text placed in a drawtext text='...' argument of the video   *)
(* chain (each caption word, the karaoke line, the watermark) has every '  *)
(* and every : preceded by a backslash.                                    *)
C26_TextEscaped ==
    Returned("build_ffmpeg_command") =>
        LET filters == ChainOf(call.ret, "0:v").filters IN
        \A i \in 1..Len(filters) :
            filters[i].name = "drawtext" => C26_Escaped(filters[i].text)

C28_SourceOf(w) ==
    VideoPath((CHOOSE row \in CandidateRows(
                   rwk[w].params.candidate_ids[rwk[w].ci]) : TRUE).video)

(* C28: no scratch file is used by two tasks at once: while a render task  *)
(* is rendering the outputs of a candidate, no step of another task        *)
(* removes the source video file it reads.                                 *)
C28_ScratchNotShared ==
    [][\A w \in RenderWorkers :
          (/\ rwk[w].pc \in {"transcode", "upload"}
           /\ rwk'[w] = rwk[w]
           /\ C28_SourceOf(w) \in files)
          => C28_SourceOf(w) \in files']_vars

(* C29: the Candidates of one analysis are persisted all or nothing: a Job *)
(* in status failed has no Candidate row, also when thumbnail extraction   *)
(* or upload fails part-way through the candidate loop.                    *)
C29_AllOrNothing ==
    \A j \in JobIds :
        jobs[j].status = "failed" =>
            \A row \in BagToSet(candidates) : row.job # j

\* C30: for every content type initialize_upload allows, the key that
\* download_from_s3 reads out of the src_url create_video records for an
\* upload_id is the key the signed upload URL was issued for.
C30_SrcUrlNamesUploadedKey ==
    (call.fn = "create_video" /\ call.args.content_type \in allowed_types)
        => ParseS3Url(call.args.S3_BUCKET, call.ret.src_url).Key = call.issued.upload_url.Key

====
